---- MODULE Spec2Model ----
(***************************************************************************)
(* Locus clustering of AEGeAn: AgnLocusIndex.c (agn_locus_index_parse,     *)
(* agn_locus_index_parse_pairwise and their parallel drivers) and          *)
(* AgnLocusStream.c (locus_stream_parse, locus_stream_parse_pairwise).     *)
(*                                                                         *)
(* A run clusters one input in one of four modes.  Features are numbered   *)
(* 1..Len(feat); the list an index returns for a (source, seqid) is the    *)
(* ascending list of the ids with that source and seqid, so the order of   *)
(* every list is arbitrary with respect to the coordinates.                *)
(***************************************************************************)
EXTENDS Integers, Sequences, FiniteSets, Bags, TLC

\* Bounds of the model: the number of features and the largest coordinate of
\* a single-source input and of a dual-source input, the number of seqids.
MaxFeat == 3
MaxCoord == 3
MaxPairFeat == 4
MaxPairCoord == 2
NumSeq == 2
MaxProcs == 2
MaxErrors == 1
MaxGarbage == 1

Modes == {"index", "index_pairwise", "stream", "stream_pairwise"}
SeqIds == 1..NumSeq
Pairwise == {"index_pairwise", "stream_pairwise"}

VARIABLES
  mode,         \* which entry point is running
  feat,         \* the input features: sequence of records
  nthreads,     \* size of the OpenMP team
  pc,           \* per seqid: position of the per-sequence parse
  pos,          \* per seqid: loop index i / j into the current list
  visited,      \* per seqid: visited_genes / visited hashmap (set of ids)
  locus,        \* per seqid: the locus being expanded
  loci,         \* per seqid: loci sealed so far (interval tree / stream->loci)
  ret,          \* per seqid: "none", "loci" (tree returned) or "NULL"
  qerr,         \* per seqid: index error met while parsing it (history)
  totalloci,    \* shared: the running total of the parallel drivers
  locus_trees,  \* shared: idx->locus_trees, seqid -> loci
  has_error,    \* shared: agn_logger_has_error(logger)
  errs_left,    \* number of index calls the environment may still fail
  returned,     \* the entry point has returned to its caller
  fault,        \* "none", or the fatal fault that ended the process
  options,      \* PeOptions of the report run: outfmt, complimit
  rlocus,       \* the locus handed to the per-locus report, or NoReportLocus
  outstream,    \* what the per-locus report wrote for rlocus
  summary_data, \* AgnSummaryData: counts and stats of the run
  aggregated,   \* the pairs aggregated so far, in order (history)
  summary_out   \* what pe_print_summary wrote last

\* The variables of the clustering and those of the reports.
cvars == <<mode, feat, nthreads, pc, pos, visited, locus, loci, ret, qerr,
           totalloci, locus_trees, has_error, errs_left, returned, fault>>

rvars == <<options, rlocus, outstream, summary_data, aggregated, summary_out>>

vars == <<cvars, rvars>>

--------------------------------------------------------------------------
\* Input

\* Sources and types a feature of the given mode can have.  The single-source
\* clusterers do not look at the source; only agn_locus_index_parse looks at
\* the type.
SourcesOf(m) == IF m \in Pairwise THEN {"refr", "pred"} ELSE {"default"}

CoordsOf(m) == 1..(IF m \in Pairwise THEN MaxPairCoord ELSE MaxCoord)

MaxFeatOf(m) == IF m \in Pairwise THEN MaxPairFeat ELSE MaxFeat

TypesOf(m) ==
  IF m = "index" THEN {"gene", "other"}
  ELSE IF m = "index_pairwise" THEN {"gene"} ELSE {"mRNA"}

FeatureRecs(m) ==
  { r \in [source : SourcesOf(m), seqid : SeqIds, start : CoordsOf(m),
           end : CoordsOf(m), type : TypesOf(m)] : r.start <= r.end }

\* Lists of different (source, seqid) are separate lists, and a feature that is
\* not a gene is skipped wherever agn_locus_index_parse meets it; only the
\* order inside one list of clustered features is observable, so the features
\* are numbered list by list.
GroupKey(r) ==
  (IF r.source = "pred" THEN 100 ELSE 0) + 10 * r.seqid + (IF r.type = "other" THEN 1 ELSE 0)

ListByList(f) == \A a \in 1..(Len(f) - 1) : GroupKey(f[a]) <= GroupKey(f[a + 1])

Ids == 1..Len(feat)

\* gt_range_overlap on closed ranges, as used by the range query.
gt_range_overlap(s1, e1, s2, e2) == s1 <= e2 /\ e1 >= s2

\* gt_feature_index_get_features_for_seqid: the ids, in list order.
FeaturesForSeqid(src, s) ==
  SelectSeq([a \in 1..Len(feat) |-> a],
            LAMBDA a : feat[a].source = src /\ feat[a].seqid = s)

\* gt_feature_index_get_features_for_range without error.
FeaturesForRange(src, s, start, end) ==
  { a \in Ids : /\ feat[a].source = src
                /\ feat[a].seqid = s
                /\ gt_range_overlap(feat[a].start, feat[a].end, start, end) }

\* gt_feature_index_get_seqids / gt_feature_index_has_seqid
SeqidsOf(src) == { feat[a].seqid : a \in { b \in Ids : feat[b].source = src } }

\* agn_seq_intersection: the seqids common to both inputs.
agn_seq_intersection == SeqidsOf("refr") \cap SeqidsOf("pred")

\* agn_str_array_union
agn_str_array_union == SeqidsOf("refr") \cup SeqidsOf("pred")

\* The seqids the run iterates over.
RunSeqids ==
  IF mode = "index_pairwise" THEN agn_seq_intersection
  ELSE IF mode = "stream_pairwise" THEN agn_str_array_union
  ELSE SeqidsOf("default")

--------------------------------------------------------------------------
\* Loci

\* agn_locus_new / agn_pairwise_compare_locus_new: no members, no range.
\* seed and pass record which feature seeded the locus, in which pass.
NewLocus(f, p) == [start |-> 0, end |-> 0, members |-> EmptyBag, seed |-> f, pass |-> p]

NoLocus == NewLocus(0, 0)

Min(a, b) == IF a < b THEN a ELSE b
Max(a, b) == IF a > b THEN a ELSE b

\* agn_locus_add keeping the range of the first member.
agn_locus_add_keep_range(l, f, label) ==
  [l EXCEPT !.members = @ (+) SetToBag({<<f, label>>}),
            !.start = IF l.members = EmptyBag THEN feat[f].start ELSE @,
            !.end = IF l.members = EmptyBag THEN feat[f].end ELSE @]

\* agn_locus_add, agn_locus_add_transcript, agn_pairwise_compare_locus_add_*:
\* one more member under the given label; the range becomes the union.
agn_locus_add(l, f, label) ==
  [l EXCEPT !.members = @ (+) SetToBag({<<f, label>>}),
            !.start = IF l.members = EmptyBag THEN feat[f].start ELSE Min(@, feat[f].start),
            !.end = IF l.members = EmptyBag THEN feat[f].end ELSE Max(@, feat[f].end)]

\* The pop loop of the overlap queries: every feature of S is added.
RECURSIVE AddAll(_, _, _)
AddAll(l, S, label) ==
  IF S = {} THEN l
  ELSE LET f == CHOOSE x \in S : TRUE
       IN AddAll(agn_locus_add(l, f, label), S \ {f}, label)

\* The ids that are members of a locus, and the ids under one label.
MemberIds(l) == { m[1] : m \in BagToSet(l.members) }
LabelIds(l, label) == { m[1] : m \in { x \in BagToSet(l.members) : x[2] = label } }

\* The loop as a single query instead of a do-while.
LoopOnce(count) == FALSE

\* while(new_gene_count > 0)
LoopAgain(count) == count > 0

--------------------------------------------------------------------------
\* Scheduling

\* #pragma omp for schedule(static): contiguous chunks of ceil(n/t) seqids.
Rank(s) == Cardinality({ t \in RunSeqids : t < s })

ChunkSize == (Cardinality(RunSeqids) + nthreads - 1) \div nthreads

ThreadOf(s) == Rank(s) \div ChunkSize

Finished(s) == pc[s] = "done"

\* A seqid is started when the iterations before it in its thread are over.
MayStart(s) ==
  /\ fault = "none"
  /\ s \in RunSeqids
  /\ pc[s] = "idle"
  /\ \A t \in RunSeqids : (t < s /\ ThreadOf(t) = ThreadOf(s)) => Finished(t)

Running(s, p) == fault = "none" /\ pc[s] = p

--------------------------------------------------------------------------
\* Index errors and the logger

\* An index call may fail, as the environment decides, while the environment
\* has failures left (at most MaxErrors calls fail in a run).
ErrChoices == IF errs_left > 0 THEN BOOLEAN ELSE {FALSE}

ErrCount(e) == IF e THEN 1 ELSE 0

\* agn_logger_log_error for each failed call of a step of seqid s.
LogErrors(s, kind, n) ==
  /\ has_error' = (has_error \/ n > 0)
  /\ errs_left' = errs_left - n
  /\ qerr' = [qerr EXCEPT ![s] = IF n > 0 THEN kind ELSE @]

\* return NULL after gt_interval_tree_delete(loci)
ReturnNull(s) ==
  /\ ret' = [ret EXCEPT ![s] = "NULL"]
  /\ loci' = [loci EXCEPT ![s] = {}]
  /\ locus' = [locus EXCEPT ![s] = NoLocus]
  /\ pc' = [pc EXCEPT ![s] = "ret"]

\* The seeding loop stopping one element early (i < size - 1).
CandidatesButLast(list, from, skip) ==
  { j \in from..(Len(list) - 1) : list[j] \notin skip }

\* The positions j >= from of the list whose feature passes the loop's test.
Candidates(list, from, skip) ==
  { j \in from..Len(list) : list[j] \notin skip }

FirstOf(C) == CHOOSE x \in C : \A y \in C : x <= y

--------------------------------------------------------------------------
\* agn_locus_index_parse and agn_locus_index_parse_memory

\* agn_locus_index_test_overlap querying the range of the seeding gene
\* instead of locus->range.
agn_locus_index_test_overlap_seed_range(s, visited_genes, l, err) ==
  IF err THEN [locus |-> l, visited |-> visited_genes, count |-> 0]
  ELSE LET new == { f \in FeaturesForRange("default", s, feat[l.seed].start, feat[l.seed].end) :
                      feat[f].type = "gene" /\ f \notin visited_genes }
       IN [locus |-> AddAll(l, new, "default"),
           visited |-> visited_genes \cup new,
           count |-> Cardinality(new)]

\* agn_locus_index_test_overlap
agn_locus_index_test_overlap(s, visited_genes, l, err) ==
  IF err THEN [locus |-> l, visited |-> visited_genes, count |-> 0]
  ELSE LET new == { f \in FeaturesForRange("default", s, l.start, l.end) :
                      feat[f].type = "gene" /\ f \notin visited_genes }
       IN [locus |-> AddAll(l, new, "default"),
           visited |-> visited_genes \cup new,
           count |-> Cardinality(new)]

\* agn_locus_index_parse, lines 165-180
IndexParseStart(s) ==
  /\ mode = "index"
  /\ MayStart(s)
  /\ \E err \in ErrChoices :
       /\ LogErrors(s, "seqid", ErrCount(err))
       /\ IF err
          THEN ReturnNull(s)
          ELSE /\ pc' = [pc EXCEPT ![s] = "seed"]
               /\ UNCHANGED <<ret, loci, locus>>
  /\ UNCHANGED <<rvars, mode, feat, nthreads, returned, pos, visited, totalloci, locus_trees, fault>>

\* The features the seeding loop of agn_locus_index_parse passes over.
NonGenes == { a \in Ids : feat[a].type # "gene" }

\* agn_locus_index_parse, lines 181-197 and 215-218: the next gene that is not
\* visited seeds a locus (and is not marked visited); none left: return loci.
IndexParseSeed(s) ==
  /\ mode = "index"
  /\ Running(s, "seed")
  /\ LET list == FeaturesForSeqid("default", s)
         C == Candidates(list, pos[s], visited[s] \cup NonGenes)
     IN IF C = {}
        THEN /\ ret' = [ret EXCEPT ![s] = "loci"]
             /\ pc' = [pc EXCEPT ![s] = "ret"]
             /\ UNCHANGED <<pos, locus>>
        ELSE LET fn == list[FirstOf(C)]
             IN /\ locus' = [locus EXCEPT ![s] = agn_locus_add(NewLocus(fn, 1), fn, "default")]
                /\ pos' = [pos EXCEPT ![s] = FirstOf(C) + 1]
                /\ pc' = [pc EXCEPT ![s] = "expand"]
                /\ UNCHANGED ret
  /\ UNCHANGED <<rvars, mode, feat, nthreads, returned, visited, loci, qerr, totalloci,
                 locus_trees, has_error, errs_left, fault>>

\* agn_locus_index_parse, lines 199-211: one iteration of the do-while; the
\* locus is inserted into the tree when the iteration reports no new gene.
IndexParseExpand(s) ==
  /\ mode = "index"
  /\ Running(s, "expand")
  /\ \E err \in ErrChoices :
       LET r == agn_locus_index_test_overlap(s, visited[s], locus[s], err)
       IN /\ visited' = [visited EXCEPT ![s] = r.visited]
          /\ LogErrors(s, "range", ErrCount(err))
          /\ IF LoopAgain(r.count)
             THEN /\ locus' = [locus EXCEPT ![s] = r.locus]
                  /\ UNCHANGED <<loci, pc>>
             ELSE /\ loci' = [loci EXCEPT ![s] = @ \cup {r.locus}]
                  /\ locus' = [locus EXCEPT ![s] = NoLocus]
                  /\ pc' = [pc EXCEPT ![s] = "seed"]
  /\ UNCHANGED <<rvars, mode, feat, nthreads, returned, pos, ret, totalloci, locus_trees, fault>>

\* The two statements of the region without mutual exclusion: the counter is
\* written from a value read before the other workers added theirs.
MemoryUnprotected(s) ==
  /\ mode \in {"index", "index_pairwise"}
  /\ Running(s, "ret")
  /\ IF ret[s] = "NULL"
     THEN /\ fault' = "null_size"
          /\ UNCHANGED <<totalloci, locus_trees, pc>>
     ELSE /\ totalloci' = Cardinality(loci[s])
          /\ locus_trees' = (s :> loci[s]) @@ locus_trees
          /\ pc' = [pc EXCEPT ![s] = "done"]
          /\ UNCHANGED fault
  /\ UNCHANGED <<rvars, mode, feat, nthreads, returned, pos, visited, locus, loci, ret,
                 qerr, has_error, errs_left>>

\* The critical region of agn_locus_index_parse_memory (lines 430-436) and of
\* agn_locus_index_parse_pairwise_memory (lines 367-373):
\* gt_interval_tree_size(loci) dereferences loci.
MemoryCritical(s) ==
  /\ mode \in {"index", "index_pairwise"}
  /\ Running(s, "ret")
  /\ IF ret[s] = "NULL"
     THEN /\ fault' = "null_size"
          /\ UNCHANGED <<totalloci, locus_trees, pc>>
     ELSE /\ totalloci' = totalloci + Cardinality(loci[s])
          /\ locus_trees' = (s :> loci[s]) @@ locus_trees
          /\ pc' = [pc EXCEPT ![s] = "done"]
          /\ UNCHANGED fault
  /\ UNCHANGED <<rvars, mode, feat, nthreads, returned, pos, visited, locus, loci, ret,
                 qerr, has_error, errs_left>>

\* agn_locus_index_parse_memory, lines 437-441, and
\* agn_locus_index_parse_pairwise_memory, lines 375-377: the parallel region
\* ends when every seqid is done, and totalloci is returned.
MemoryReturn ==
  /\ mode \in {"index", "index_pairwise"}
  /\ fault = "none"
  /\ ~returned
  /\ \A s \in RunSeqids : pc[s] = "done"
  /\ returned' = TRUE
  /\ UNCHANGED <<rvars, mode, feat, nthreads, pc, pos, visited, locus, loci, ret, qerr,
                 totalloci, locus_trees, has_error, errs_left, fault>>

--------------------------------------------------------------------------
\* agn_locus_index_parse_pairwise

\* The values the uninitialized new_gene_count can hold at entry, as far as
\* the sign of the returned int goes.
Garbage == (0 - MaxGarbage)..MaxGarbage

\* agn_locus_index_pairwise_test_overlap: new_gene_count is declared without
\* an initializer, incremented once per gene added and returned.
agn_locus_index_pairwise_test_overlap(src, s, visited_genes, l, err, garbage) ==
  LET genes_to_add == IF err THEN {} ELSE FeaturesForRange(src, s, l.start, l.end)
      new == { f \in genes_to_add : f \notin visited_genes }
  IN [locus |-> AddAll(l, new, src),
      visited |-> visited_genes \cup new,
      count |-> garbage + Cardinality(new)]

\* agn_locus_index_parse_pairwise, lines 227-245
PairwiseParseStart(s) ==
  /\ mode = "index_pairwise"
  /\ MayStart(s)
  /\ \E err \in ErrChoices :
       /\ LogErrors(s, "seqid", ErrCount(err))
       /\ IF err
          THEN ReturnNull(s)
          ELSE /\ pc' = [pc EXCEPT ![s] = "seed"]
               /\ UNCHANGED <<ret, loci, locus>>
  /\ UNCHANGED <<rvars, mode, feat, nthreads, returned, pos, visited, totalloci, locus_trees, fault>>

\* agn_locus_index_parse_pairwise, lines 246-254 and 282: the next reference
\* gene that is not visited is marked visited and seeds a locus.
PairwiseSeedRefr(s) ==
  /\ mode = "index_pairwise"
  /\ Running(s, "seed")
  /\ LET refr_list == FeaturesForSeqid("refr", s)
         C == Candidates(refr_list, pos[s], visited[s])
     IN IF C = {}
        THEN /\ pc' = [pc EXCEPT ![s] = "predlist"]
             /\ pos' = [pos EXCEPT ![s] = 1]
             /\ UNCHANGED <<visited, locus>>
        ELSE LET refr_gene == refr_list[FirstOf(C)]
             IN /\ visited' = [visited EXCEPT ![s] = @ \cup {refr_gene}]
                /\ locus' = [locus EXCEPT ![s] = agn_locus_add(NewLocus(refr_gene, 1), refr_gene, "refr")]
                /\ pos' = [pos EXCEPT ![s] = FirstOf(C) + 1]
                /\ pc' = [pc EXCEPT ![s] = "expand"]
  /\ UNCHANGED <<rvars, mode, feat, nthreads, returned, loci, ret, qerr, totalloci,
                 locus_trees, has_error, errs_left, fault>>

\* agn_locus_index_parse_pairwise, lines 256-280: one iteration of the pass 1
\* do-while: both indexes are queried, then the logger is asked for errors.
PairwiseExpandRefr(s) ==
  /\ mode = "index_pairwise"
  /\ Running(s, "expand")
  /\ \E er \in ErrChoices, ep \in ErrChoices, gr \in Garbage, gp \in Garbage :
       /\ ErrCount(er) + ErrCount(ep) <= errs_left
       /\ LET r1 == agn_locus_index_pairwise_test_overlap("refr", s, visited[s], locus[s], er, gr)
              r2 == agn_locus_index_pairwise_test_overlap("pred", s, r1.visited, r1.locus, ep, gp)
          IN /\ LogErrors(s, "range", ErrCount(er) + ErrCount(ep))
             /\ visited' = [visited EXCEPT ![s] = r2.visited]
             /\ IF has_error'
                THEN ReturnNull(s)
                ELSE /\ UNCHANGED ret
                     /\ IF LoopAgain(r1.count + r2.count)
                        THEN /\ locus' = [locus EXCEPT ![s] = r2.locus]
                             /\ UNCHANGED <<loci, pc>>
                        ELSE /\ loci' = [loci EXCEPT ![s] = @ \cup {r2.locus}]
                             /\ locus' = [locus EXCEPT ![s] = NoLocus]
                             /\ pc' = [pc EXCEPT ![s] = "seed"]
  /\ UNCHANGED <<rvars, mode, feat, nthreads, returned, pos, totalloci, locus_trees, fault>>

\* agn_locus_index_parse_pairwise, lines 286-297: the prediction list is
\* fetched; the error path deletes refr_list, which line 282 has deleted.
PairwisePredList(s) ==
  /\ mode = "index_pairwise"
  /\ Running(s, "predlist")
  /\ \E err \in ErrChoices, crash \in BOOLEAN :
       /\ LogErrors(s, "seqid", ErrCount(err))
       /\ IF err
          THEN IF crash
               THEN /\ fault' = "double_free"
                    /\ UNCHANGED <<ret, loci, locus, pc>>
               ELSE /\ ReturnNull(s)
                    /\ UNCHANGED fault
          ELSE /\ ~crash
               /\ pc' = [pc EXCEPT ![s] = "seed2"]
               /\ UNCHANGED <<ret, loci, locus, fault>>
  /\ UNCHANGED <<rvars, mode, feat, nthreads, returned, pos, visited, totalloci, locus_trees>>

\* agn_locus_index_parse_pairwise, lines 298-306 and 332-336: the next
\* prediction gene that is not visited seeds a locus; none left: return loci.
PairwiseSeedPred(s) ==
  /\ mode = "index_pairwise"
  /\ Running(s, "seed2")
  /\ LET pred_list == FeaturesForSeqid("pred", s)
         C == Candidates(pred_list, pos[s], visited[s])
     IN IF C = {}
        THEN /\ ret' = [ret EXCEPT ![s] = "loci"]
             /\ pc' = [pc EXCEPT ![s] = "ret"]
             /\ UNCHANGED <<visited, locus, pos>>
        ELSE LET pred_gene == pred_list[FirstOf(C)]
             IN /\ visited' = [visited EXCEPT ![s] = @ \cup {pred_gene}]
                /\ locus' = [locus EXCEPT ![s] = agn_locus_add(NewLocus(pred_gene, 2), pred_gene, "pred")]
                /\ pos' = [pos EXCEPT ![s] = FirstOf(C) + 1]
                /\ pc' = [pc EXCEPT ![s] = "expand2"]
                /\ UNCHANGED ret
  /\ UNCHANGED <<rvars, mode, feat, nthreads, returned, loci, qerr, totalloci,
                 locus_trees, has_error, errs_left, fault>>

\* agn_locus_index_parse_pairwise, lines 308-329: one iteration of the pass 2
\* do-while; its error path deletes refr_list a second time.
PairwiseExpandPred(s) ==
  /\ mode = "index_pairwise"
  /\ Running(s, "expand2")
  /\ \E ep \in ErrChoices, gp \in Garbage, crash \in BOOLEAN :
       LET r == agn_locus_index_pairwise_test_overlap("pred", s, visited[s], locus[s], ep, gp)
       IN /\ LogErrors(s, "range", ErrCount(ep))
          /\ visited' = [visited EXCEPT ![s] = r.visited]
          /\ IF has_error'
             THEN IF crash
                  THEN /\ fault' = "double_free"
                       /\ UNCHANGED <<ret, loci, locus, pc>>
                  ELSE /\ ReturnNull(s)
                       /\ UNCHANGED fault
             ELSE /\ ~crash
                  /\ UNCHANGED <<ret, fault>>
                  /\ IF LoopAgain(r.count)
                     THEN /\ locus' = [locus EXCEPT ![s] = r.locus]
                          /\ UNCHANGED <<loci, pc>>
                     ELSE /\ loci' = [loci EXCEPT ![s] = @ \cup {r.locus}]
                          /\ locus' = [locus EXCEPT ![s] = NoLocus]
                          /\ pc' = [pc EXCEPT ![s] = "seed2"]
  /\ UNCHANGED <<rvars, mode, feat, nthreads, returned, pos, totalloci, locus_trees>>

--------------------------------------------------------------------------
\* locus_stream_parse

\* locus_stream_query_overlap without gt_hashmap_add(visited, ...).
locus_stream_query_overlap_unmarked(s, visited_map, l) ==
  LET new == { f \in FeaturesForRange("default", s, l.start, l.end) : f \notin visited_map }
  IN [locus |-> AddAll(l, new, "default"),
      visited |-> visited_map,
      count |-> Cardinality(new)]

\* locus_stream_query_overlap
locus_stream_query_overlap(s, visited_map, l) ==
  LET new == { f \in FeaturesForRange("default", s, l.start, l.end) : f \notin visited_map }
  IN [locus |-> AddAll(l, new, "default"),
      visited |-> visited_map \cup new,
      count |-> Cardinality(new)]

\* locus_stream_parse, lines 336-359 and 377-380: the features of the next
\* seqid are fetched on its first step; the next transcript that is not
\* visited is marked visited and seeds a locus.
StreamParseSeed(s) ==
  /\ mode = "stream"
  /\ MayStart(s) \/ Running(s, "seed")
  /\ LET features == FeaturesForSeqid("default", s)
         C == Candidates(features, pos[s], visited[s])
     IN IF C = {}
        THEN /\ ret' = [ret EXCEPT ![s] = "loci"]
             /\ pc' = [pc EXCEPT ![s] = "done"]
             /\ UNCHANGED <<visited, locus, pos>>
        ELSE LET transcript == features[FirstOf(C)]
             IN /\ visited' = [visited EXCEPT ![s] = @ \cup {transcript}]
                /\ locus' = [locus EXCEPT ![s] = agn_locus_add(NewLocus(transcript, 1), transcript, "default")]
                /\ pos' = [pos EXCEPT ![s] = FirstOf(C) + 1]
                /\ pc' = [pc EXCEPT ![s] = "expand"]
                /\ UNCHANGED ret
  /\ UNCHANGED <<rvars, mode, feat, nthreads, returned, loci, qerr, totalloci,
                 locus_trees, has_error, errs_left, fault>>

\* locus_stream_parse, lines 361-374: one iteration of the do-while; the locus
\* is added to stream->loci when the iteration reports no new transcript.
StreamParseExpand(s) ==
  /\ mode = "stream"
  /\ Running(s, "expand")
  /\ LET r == locus_stream_query_overlap(s, visited[s], locus[s])
     IN /\ visited' = [visited EXCEPT ![s] = r.visited]
        /\ IF LoopAgain(r.count)
           THEN /\ locus' = [locus EXCEPT ![s] = r.locus]
                /\ UNCHANGED <<loci, pc>>
           ELSE /\ loci' = [loci EXCEPT ![s] = @ \cup {r.locus}]
                /\ locus' = [locus EXCEPT ![s] = NoLocus]
                /\ pc' = [pc EXCEPT ![s] = "seed"]
  /\ UNCHANGED <<rvars, mode, feat, nthreads, returned, pos, ret, qerr, totalloci,
                 locus_trees, has_error, errs_left, fault>>

--------------------------------------------------------------------------
\* locus_stream_parse_pairwise

\* locus_stream_query_overlap_pairwise adding every transcript under the
\* reference label.
locus_stream_query_overlap_pairwise_refr_label(s, l, source, visited_map) ==
  IF s \notin SeqidsOf(source)
  THEN [locus |-> l, visited |-> visited_map, count |-> 0]
  ELSE LET new == { f \in FeaturesForRange(source, s, l.start, l.end) : f \notin visited_map }
       IN [locus |-> AddAll(l, new, "refr"),
           visited |-> visited_map \cup new,
           count |-> Cardinality(new)]

\* locus_stream_query_overlap_pairwise: nothing is added when the index of
\* the source does not have the seqid.
locus_stream_query_overlap_pairwise(s, l, source, visited_map) ==
  IF s \notin SeqidsOf(source)
  THEN [locus |-> l, visited |-> visited_map, count |-> 0]
  ELSE LET new == { f \in FeaturesForRange(source, s, l.start, l.end) : f \notin visited_map }
       IN [locus |-> AddAll(l, new, source),
           visited |-> visited_map \cup new,
           count |-> Cardinality(new)]

\* locus_stream_parse_pairwise, lines 403-426 and 450: the reference list of
\* the next seqid is fetched on its first step; the next reference transcript
\* that is not visited is marked visited and seeds a locus.
StreamPairwiseSeedRefr(s) ==
  /\ mode = "stream_pairwise"
  /\ MayStart(s) \/ Running(s, "seed")
  /\ LET refr_list == FeaturesForSeqid("refr", s)
         C == Candidates(refr_list, pos[s], visited[s])
     IN IF C = {}
        THEN /\ pc' = [pc EXCEPT ![s] = "seed2"]
             /\ pos' = [pos EXCEPT ![s] = 1]
             /\ UNCHANGED <<visited, locus>>
        ELSE LET transcript == refr_list[FirstOf(C)]
             IN /\ visited' = [visited EXCEPT ![s] = @ \cup {transcript}]
                /\ locus' = [locus EXCEPT ![s] = agn_locus_add(NewLocus(transcript, 1), transcript, "refr")]
                /\ pos' = [pos EXCEPT ![s] = FirstOf(C) + 1]
                /\ pc' = [pc EXCEPT ![s] = "expand"]
  /\ UNCHANGED <<rvars, mode, feat, nthreads, returned, loci, ret, qerr, totalloci,
                 locus_trees, has_error, errs_left, fault>>

\* locus_stream_parse_pairwise, lines 428-448: one iteration of the pass 1
\* do-while: the reference index, then the prediction index, is queried.
StreamPairwiseExpandRefr(s) ==
  /\ mode = "stream_pairwise"
  /\ Running(s, "expand")
  /\ LET r1 == locus_stream_query_overlap_pairwise(s, locus[s], "refr", visited[s])
         r2 == locus_stream_query_overlap_pairwise(s, r1.locus, "pred", r1.visited)
     IN /\ visited' = [visited EXCEPT ![s] = r2.visited]
        /\ IF LoopAgain(r1.count + r2.count)
           THEN /\ locus' = [locus EXCEPT ![s] = r2.locus]
                /\ UNCHANGED <<loci, pc>>
           ELSE /\ loci' = [loci EXCEPT ![s] = @ \cup {r2.locus}]
                /\ locus' = [locus EXCEPT ![s] = NoLocus]
                /\ pc' = [pc EXCEPT ![s] = "seed"]
  /\ UNCHANGED <<rvars, mode, feat, nthreads, returned, pos, ret, qerr, totalloci,
                 locus_trees, has_error, errs_left, fault>>

\* locus_stream_parse_pairwise, lines 452-469 and 488-490: the next prediction
\* transcript that is not visited is marked visited and seeds a locus.
StreamPairwiseSeedPred(s) ==
  /\ mode = "stream_pairwise"
  /\ Running(s, "seed2")
  /\ LET pred_list == FeaturesForSeqid("pred", s)
         C == Candidates(pred_list, pos[s], visited[s])
     IN IF C = {}
        THEN /\ ret' = [ret EXCEPT ![s] = "loci"]
             /\ pc' = [pc EXCEPT ![s] = "done"]
             /\ UNCHANGED <<visited, locus, pos>>
        ELSE LET transcript == pred_list[FirstOf(C)]
             IN /\ visited' = [visited EXCEPT ![s] = @ \cup {transcript}]
                /\ locus' = [locus EXCEPT ![s] = agn_locus_add(NewLocus(transcript, 2), transcript, "pred")]
                /\ pos' = [pos EXCEPT ![s] = FirstOf(C) + 1]
                /\ pc' = [pc EXCEPT ![s] = "expand2"]
                /\ UNCHANGED ret
  /\ UNCHANGED <<rvars, mode, feat, nthreads, returned, loci, qerr, totalloci,
                 locus_trees, has_error, errs_left, fault>>

\* locus_stream_parse_pairwise, lines 471-486: one iteration of the pass 2
\* do-while: only the prediction index is queried.
StreamPairwiseExpandPred(s) ==
  /\ mode = "stream_pairwise"
  /\ Running(s, "expand2")
  /\ LET r == locus_stream_query_overlap_pairwise(s, locus[s], "pred", visited[s])
     IN /\ visited' = [visited EXCEPT ![s] = r.visited]
        /\ IF LoopAgain(r.count)
           THEN /\ locus' = [locus EXCEPT ![s] = r.locus]
                /\ UNCHANGED <<loci, pc>>
           ELSE /\ loci' = [loci EXCEPT ![s] = @ \cup {r.locus}]
                /\ locus' = [locus EXCEPT ![s] = NoLocus]
                /\ pc' = [pc EXCEPT ![s] = "seed2"]
  /\ UNCHANGED <<rvars, mode, feat, nthreads, returned, pos, ret, qerr, totalloci,
                 locus_trees, has_error, errs_left, fault>>

\* locus_stream_parse, lines 380-384, and locus_stream_parse_pairwise, lines
\* 492-496: the loop over the seqids is over.
StreamReturn ==
  /\ mode \in {"stream", "stream_pairwise"}
  /\ ~returned
  /\ \A s \in RunSeqids : pc[s] = "done"
  /\ returned' = TRUE
  /\ UNCHANGED <<rvars, mode, feat, nthreads, pc, pos, visited, locus, loci, ret, qerr,
                 totalloci, locus_trees, has_error, errs_left, fault>>

--------------------------------------------------------------------------
\* The per-sequence parses over explicit lists, with index calls that succeed

\* agn_locus_index_parse, lines 199-206: the do-while run to its exit.
RECURSIVE IndexExpandLoop(_, _, _)
IndexExpandLoop(s, visited_genes, l) ==
  LET r == agn_locus_index_test_overlap(s, visited_genes, l, FALSE)
  IN IF LoopAgain(r.count) THEN IndexExpandLoop(s, r.visited, r.locus) ELSE r

\* agn_locus_index_parse, lines 181-212: the seeding loop from position from.
RECURSIVE IndexParseFrom(_, _, _, _, _)
IndexParseFrom(s, seqfeatures, from, visited_genes, tree) ==
  LET C == Candidates(seqfeatures, from, visited_genes \cup NonGenes)
  IN IF C = {} THEN tree
     ELSE LET fn == seqfeatures[FirstOf(C)]
              r == IndexExpandLoop(s, visited_genes, agn_locus_add(NewLocus(fn, 1), fn, "default"))
          IN IndexParseFrom(s, seqfeatures, FirstOf(C) + 1, r.visited, tree \cup {r.locus})

\* agn_locus_index_parse for the list seqfeatures of seqid s.
agn_locus_index_parse(s, seqfeatures) == IndexParseFrom(s, seqfeatures, 1, {}, {})

\* locus_stream_parse_pairwise, lines 428-439 (both = TRUE) and 471-477.
RECURSIVE StreamPairwiseExpandLoop(_, _, _, _)
StreamPairwiseExpandLoop(s, visited_map, l, both) ==
  LET r1 == IF both THEN locus_stream_query_overlap_pairwise(s, l, "refr", visited_map)
            ELSE [locus |-> l, visited |-> visited_map, count |-> 0]
      r2 == locus_stream_query_overlap_pairwise(s, r1.locus, "pred", r1.visited)
  IN IF LoopAgain(r1.count + r2.count)
     THEN StreamPairwiseExpandLoop(s, r2.visited, r2.locus, both)
     ELSE r2

\* locus_stream_parse_pairwise, lines 418-449 (pass = 1) and 461-487 (pass = 2).
RECURSIVE StreamPairwisePass(_, _, _, _, _, _)
StreamPairwisePass(s, list, from, st, source, pass) ==
  LET C == Candidates(list, from, st.visited)
  IN IF C = {} THEN st
     ELSE LET transcript == list[FirstOf(C)]
              r == StreamPairwiseExpandLoop(s, st.visited \cup {transcript},
                     agn_locus_add(NewLocus(transcript, pass), transcript, source), pass = 1)
          IN StreamPairwisePass(s, list, FirstOf(C) + 1,
               [visited |-> r.visited, loci |-> st.loci \cup {r.locus}], source, pass)

\* locus_stream_parse_pairwise for the lists of one seqid.
locus_stream_parse_pairwise(s, refr_list, pred_list) ==
  LET st1 == StreamPairwisePass(s, refr_list, 1, [visited |-> {}, loci |-> {}], "refr", 1)
  IN StreamPairwisePass(s, pred_list, 1, st1, "pred", 2).loci

--------------------------------------------------------------------------
\* Reports: comparison statistics of a clique pair

\* Bounds of the reports: the cliques of one source at a locus, the
\* comparison limit, a structural count, the length of a locus in
\* nucleotides, the loci aggregated in a run.
MaxCliques == 2
MaxLimit == 4
MaxCount == 1
MaxLength == 2
MaxAggregated == 2

\* Tolerances are multiples of 1/TolDen below 1.
TolDen == 2

RECURSIVE GCD(_, _)
GCD(a, b) == IF b = 0 THEN a ELSE GCD(b, a % b)

\* A printed number: a fraction in lowest terms (d > 0), or no number.
Fraction(n, d) == [kind |-> "value", num |-> n \div GCD(n, d), den |-> d \div GCD(n, d)]

NotANumber(k) == [kind |-> k, num |-> 0, den |-> 0]

\* A derived ratio as the comparison resolves it: "--" for a zero denominator.
Ratio(n, d) == IF d = 0 THEN NotANumber("--") ELSE Fraction(n, d)

\* n / d without the casts: the division of the integers.
CDivInteger(n, d) == IF d = 0 THEN NotANumber("nan") ELSE Fraction(n \div d, 1)

\* (double)n / (double)d and (float)n / (float)d as the reports compute them
\* in place: the division is made whatever d is, and a zero d gives the
\* value printed as nan (0/0) or inf.
CDiv(n, d) == IF d = 0 THEN NotANumber(IF n = 0 THEN "nan" ELSE "inf") ELSE Fraction(n, d)

\* AgnCompStatsBinary: the counts of one structural comparison.
StrucStats == [correct : 0..MaxCount, missing : 0..MaxCount, wrong : 0..MaxCount]

StrucPerfect(st) == st.missing = 0 /\ st.wrong = 0

\* agn_resolve_structure_level_stats: sensitivity, specificity, F1 score and
\* annotation edit distance of the counts.
agn_resolve_structure_level_stats(st) ==
  LET sn == Ratio(st.correct, st.correct + st.missing)
      sp == Ratio(st.correct, st.correct + st.wrong)
      defined == sn.kind = "value" /\ sp.kind = "value" /\ st.correct > 0
      den == 2 * st.correct + st.missing + st.wrong
  IN [sn |-> sn, sp |-> sp,
      f1 |-> IF defined THEN Fraction(2 * st.correct, den) ELSE NotANumber("--"),
      ed |-> IF defined THEN Fraction(st.missing + st.wrong, den) ELSE NotANumber("--")]

\* AgnComparison of a compared pair: both cliques have an exon, the locus has
\* a length, and at most every nucleotide matches.
PairStats ==
  { c \in [cds_struc_stats : StrucStats, exon_struc_stats : StrucStats,
           utr_struc_stats : StrucStats, overall_matches : 0..MaxLength,
           overall_length : 1..MaxLength, tolerance : 0..(TolDen - 1)] :
      /\ c.overall_matches <= c.overall_length
      /\ c.exon_struc_stats.correct + c.exon_struc_stats.missing > 0
      /\ c.exon_struc_stats.correct + c.exon_struc_stats.wrong > 0 }

\* The pairs of a locus with several cliques differ in their identity only.
PairStatsByIdentity ==
  { c \in PairStats :
      /\ c.cds_struc_stats = [correct |-> 1, missing |-> 0, wrong |-> 0]
      /\ c.exon_struc_stats = c.cds_struc_stats
      /\ c.utr_struc_stats = c.cds_struc_stats
      /\ c.tolerance = 0 }

\* The stats of a pair that is never compared.
NoStats ==
  [cds_struc_stats |-> [correct |-> 0, missing |-> 0, wrong |-> 0],
   exon_struc_stats |-> [correct |-> 0, missing |-> 0, wrong |-> 0],
   utr_struc_stats |-> [correct |-> 0, missing |-> 0, wrong |-> 0],
   overall_matches |-> 0, overall_length |-> 1, tolerance |-> 0]

\* pairstats->overall_identity
overall_identity(c) == Ratio(c.overall_matches, c.overall_length)

\* fabs(identity - 1.0) < tolerance on the fraction identity (never above 1)
\* and the tolerance c.tolerance / TolDen; a nan compares false.
IdentityWithinTolerance(identity, c) ==
  /\ identity.kind = "value"
  /\ (identity.den - identity.num) * TolDen < c.tolerance * identity.den

\* agn_clique_pair_has_utrs: a UTR segment on either side.
agn_clique_pair_has_utrs(c) ==
  c.utr_struc_stats.correct + c.utr_struc_stats.missing + c.utr_struc_stats.wrong > 0

\* Classification codes of AgnCliquePair.h
PE_CLIQUE_PAIR_PERFECT_MATCH == 0
PE_CLIQUE_PAIR_MISLABELED == 1
PE_CLIQUE_PAIR_CDS_MATCH == 2
PE_CLIQUE_PAIR_EXON_MATCH == 3
PE_CLIQUE_PAIR_UTR_MATCH == 4
PE_CLIQUE_PAIR_NON_MATCH == 5

\* agn_clique_pair_classify: the first rule that matches.
agn_clique_pair_classify(c) ==
  LET cds == StrucPerfect(c.cds_struc_stats)
      exon == StrucPerfect(c.exon_struc_stats)
      utr == StrucPerfect(c.utr_struc_stats)
      close == (c.overall_length - c.overall_matches) * TolDen <= c.tolerance * c.overall_length
  IN IF cds /\ exon /\ utr /\ close THEN PE_CLIQUE_PAIR_PERFECT_MATCH
     ELSE IF cds /\ exon THEN PE_CLIQUE_PAIR_MISLABELED
     ELSE IF cds THEN PE_CLIQUE_PAIR_CDS_MATCH
     ELSE IF exon THEN PE_CLIQUE_PAIR_EXON_MATCH
     ELSE IF utr THEN PE_CLIQUE_PAIR_UTR_MATCH
     ELSE PE_CLIQUE_PAIR_NON_MATCH

--------------------------------------------------------------------------
\* Reports: the locus handed to a per-locus report

\* A GtArray pointer: NULL, or an array of elements.
NULL == [null |-> TRUE, elems |-> <<>>]

gt_array_new(elems) == [null |-> FALSE, elems |-> elems]

\* gt_array_size; a NULL array has size 0.
gt_array_size(a) == IF a.null THEN 0 ELSE Len(a.elems)

\* The cliques of one side of the pairs of a locus: clique 0 is the empty
\* clique that stands for a side without transcripts.
CliqueSide(n) == IF n = 0 THEN <<0>> ELSE [i \in 1..n |-> i]

\* The pairs <<reference clique, prediction clique>> of a locus, in the order
\* of enumeration.
CliquePairSeq(nrefr, npred) ==
  LET R == CliqueSide(nrefr)
      P == CliqueSide(npred)
  IN [k \in 1..(Len(R) * Len(P)) |->
        <<R[((k - 1) \div Len(P)) + 1], P[((k - 1) % Len(P)) + 1]>>]

SeqRange(q) == { q[k] : k \in 1..Len(q) }

\* agn_clique_pair_needs_comparison: both cliques have transcripts.
agn_clique_pair_needs_comparison(pair) == pair[1] # 0 /\ pair[2] # 0

\* The loci a report can be handed, with pair statistics from S and at most N
\* cliques on a side: the cliques of each side, whether the clique pairs are absent (the locus has more
\* transcripts than trans_per_locus, or nothing to pair) and the statistics
\* of every pair that is compared.
ReportLoci(S, N) ==
  UNION { { [nrefr |-> nr, npred |-> np, absent |-> a, stats |-> f] :
              a \in BOOLEAN,
              f \in [SeqRange(CliquePairSeq(nr, np)) ->
                       IF nr = 0 \/ np = 0 THEN {NoStats} ELSE S] } :
          nr \in 0..N, np \in 0..N }

NoReportLocus == [nrefr |-> 0, npred |-> 0, absent |-> TRUE, stats |-> <<>>]

\* agn_pairwise_compare_locus_get_clique_pairs
agn_pairwise_compare_locus_get_clique_pairs(l) ==
  IF l.absent THEN NULL ELSE gt_array_new(CliquePairSeq(l.nrefr, l.npred))

\* A comparison that takes the first of two pairs with equal scores for the
\* better one.
agn_clique_pair_compare_biased(c1, c2) ==
  LET k1 == <<c1.overall_matches * c2.overall_length, c1.cds_struc_stats.correct,
              c1.exon_struc_stats.correct, c1.utr_struc_stats.correct>>
      k2 == <<c2.overall_matches * c1.overall_length, c2.cds_struc_stats.correct,
              c2.exon_struc_stats.correct, c2.utr_struc_stats.correct>>
      D == { i \in 1..4 : k1[i] # k2[i] }
  IN IF D = {} THEN 1
     ELSE LET i == CHOOSE x \in D : \A y \in D : x <= y
          IN IF k1[i] > k2[i] THEN 1 ELSE -1

\* agn_clique_pair_compare: 1 when the first pair has the better scores, -1
\* when the second has, 0 when they are equal; identity first, then the
\* correct CDS segments, exons and UTR segments.
agn_clique_pair_compare(c1, c2) ==
  LET k1 == <<c1.overall_matches * c2.overall_length, c1.cds_struc_stats.correct,
              c1.exon_struc_stats.correct, c1.utr_struc_stats.correct>>
      k2 == <<c2.overall_matches * c1.overall_length, c2.cds_struc_stats.correct,
              c2.exon_struc_stats.correct, c2.utr_struc_stats.correct>>
      D == { i \in 1..4 : k1[i] # k2[i] }
  IN IF D = {} THEN 0
     ELSE LET i == CHOOSE x \in D : \A y \in D : x <= y
          IN IF k1[i] > k2[i] THEN 1 ELSE -1

\* agn_clique_pair_compare_direct: the comparison of agn_clique_pair_compare
\* on the pairs themselves.
agn_clique_pair_compare_direct(c1, c2) == agn_clique_pair_compare(c1, c2)

\* agn_clique_pair_compare_reverse: the result of agn_clique_pair_compare,
\* reversed.
agn_clique_pair_compare_reverse(c1, c2) ==
  LET result == agn_clique_pair_compare(c1, c2)
  IN IF result = 1 THEN -1 ELSE IF result = -1 THEN 1 ELSE 0

\* gt_array_sort with agn_clique_pair_compare_reverse: the pairs best first;
\* pairs that compare equal keep their order.
RECURSIVE SortBestFirst(_, _)
SortBestFirst(l, pairs) ==
  IF pairs = <<>> THEN <<>>
  ELSE LET n == Len(pairs)
           x == pairs[n]
           sorted == SortBestFirst(l, SubSeq(pairs, 1, n - 1))
           k == Cardinality({ j \in 1..(n - 1) :
                  agn_clique_pair_compare(l.stats[sorted[j]], l.stats[x]) >= 0 })
       IN SubSeq(sorted, 1, k) \o <<x>> \o SubSeq(sorted, k + 1, n - 1)

\* A pair is accepted whatever was claimed before it.
CliquesUnclaimedNever(pair, accepted) == TRUE

\* Neither clique of the pair is claimed by a pair accepted before it.
CliquesUnclaimed(pair, accepted) ==
  \A q \in SeqRange(accepted) : q[1] # pair[1] /\ q[2] # pair[2]

\* The greedy pass over the sorted pairs from position from.
RECURSIVE AcceptPairs(_, _, _)
AcceptPairs(sorted, from, accepted) ==
  IF from > Len(sorted) THEN accepted
  ELSE LET pair == sorted[from]
       IN AcceptPairs(sorted, from + 1,
            IF agn_clique_pair_needs_comparison(pair) /\ CliquesUnclaimed(pair, accepted)
            THEN Append(accepted, pair) ELSE accepted)

\* agn_pairwise_compare_locus_find_best_pairs, agn_locus_pairs_to_report: the
\* pairs to report, an empty array when the locus has no clique pairs.
agn_pairwise_compare_locus_find_best_pairs(l) ==
  LET clique_pairs == agn_pairwise_compare_locus_get_clique_pairs(l)
  IN gt_array_new(AcceptPairs(SortBestFirst(l, clique_pairs.elems), 1, <<>>))

\* agn_pairwise_compare_locus_get_unique_refr_cliques: the reference cliques
\* that no reported pair claims.
agn_pairwise_compare_locus_get_unique_refr_cliques(l) ==
  { r \in 1..l.nrefr :
      \A q \in SeqRange(agn_pairwise_compare_locus_find_best_pairs(l).elems) : q[1] # r }

\* agn_pairwise_compare_locus_get_unique_pred_cliques
agn_pairwise_compare_locus_get_unique_pred_cliques(l) ==
  { p \in 1..l.npred :
      \A q \in SeqRange(agn_pairwise_compare_locus_find_best_pairs(l).elems) : q[2] # p }

--------------------------------------------------------------------------
\* Reports: what the per-locus reports print for one clique pair

\* A printed text cell, and a printed line "label value".
Text(s) == NotANumber(s)

Line(label, value) == [label |-> label, value |-> value]

\* A format of four "%-30s %-10s" lines filled with eight arguments in order.
FourLines(args) == [k \in 1..4 |-> Line(args[2 * k - 1], args[2 * k])]

\* The printed form of a structure comparison.
Structure(kind, st, lines) ==
  [kind |-> kind,
   refr |-> IF kind = "perfect" THEN st.correct ELSE st.correct + st.missing,
   refr_match |-> st.correct, refr_nomatch |-> st.missing,
   pred |-> IF kind = "perfect" THEN st.correct ELSE st.correct + st.wrong,
   pred_match |-> st.correct, pred_nomatch |-> st.wrong,
   lines |-> lines]

\* "No UTRs annotated for this locus."
NoUtrs == Structure("no_utrs", [correct |-> 0, missing |-> 0, wrong |-> 0], <<>>)

\* pe_gene_locus_print_results, lines 164-196 (CDS), 199-231 (exons) and
\* 241-273 (UTRs); pe_gene_locus_print_results_html, lines 694-726, 733-765
\* and 778-812: each statistic after its own label.
pe_print_structure(st) ==
  LET r == agn_resolve_structure_level_stats(st)
  IN IF st.missing = 0 /\ st.wrong = 0
     THEN Structure("perfect", st, <<>>)
     ELSE Structure("detail", st,
            <<Line(Text("Sensitivity:"), r.sn), Line(Text("Specificity:"), r.sp),
              Line(Text("F1 Score:"), r.f1), Line(Text("Annotation edit distance:"), r.ed)>>)

\* pe_gene_locus_print_results, lines 234-275, and
\* pe_gene_locus_print_results_html, lines 769-814.
pe_print_utr_structure(c) ==
  IF ~agn_clique_pair_has_utrs(c) THEN NoUtrs ELSE pe_print_structure(c.utr_struc_stats)

\* pe_gene_locus_print_results, lines 278-298, and
\* pe_gene_locus_print_results_html, lines 817-847.
pe_print_nucleotide(c) ==
  IF IdentityWithinTolerance(overall_identity(c), c)
  THEN [kind |-> "perfect", identity |-> overall_identity(c)]
  ELSE [kind |-> "detail", identity |-> overall_identity(c)]

\* The block pe_gene_locus_print_results (lines 116-303) and
\* pe_gene_locus_print_results_html (lines 628-849) print for a pair.
pe_print_pair(l, pair) ==
  LET c == l.stats[pair]
  IN [refr |-> pair[1], pred |-> pair[2],
      cds |-> pe_print_structure(c.cds_struc_stats),
      exon |-> pe_print_structure(c.exon_struc_stats),
      utr |-> pe_print_utr_structure(c),
      nuc |-> pe_print_nucleotide(c)]

\* locus_print_structure_report: the labels come first in the argument list
\* of the second printf_c, the values after them.
locus_print_structure_report(st) ==
  LET r == agn_resolve_structure_level_stats(st)
  IN IF st.missing = 0 /\ st.wrong = 0
     THEN Structure("perfect", st, <<>>)
     ELSE Structure("detail", st,
            FourLines(<<Text("Sensitivity:"), Text("Specificity:"), Text("F1 Score:"),
                        Text("Annotation edit distance:"), r.sn, r.sp, r.f1, r.ed>>))

\* locus_print_nucleotide_report: the identity is computed in place.
locus_print_nucleotide_report(c) ==
  LET identity == CDiv(c.overall_matches, c.overall_length)
  IN IF IdentityWithinTolerance(identity, c)
     THEN [kind |-> "perfect", identity |-> identity]
     ELSE [kind |-> "detail", identity |-> identity]

\* locus_report_print_pair
locus_report_print_pair(l, pair) ==
  LET c == l.stats[pair]
  IN [refr |-> pair[1], pred |-> pair[2],
      cds |-> locus_print_structure_report(c.cds_struc_stats),
      exon |-> locus_print_structure_report(c.exon_struc_stats),
      utr |-> locus_print_structure_report(c.utr_struc_stats),
      nuc |-> locus_print_nucleotide_report(c)]

\* pe_gene_locus_print_results_csv, lines 361-437: the row of a pair.
CsvStructure(st) ==
  LET r == agn_resolve_structure_level_stats(st)
  IN Structure("row", st, <<Line(Text(","), r.sn), Line(Text(","), r.sp),
                            Line(Text(","), r.f1), Line(Text(","), r.ed)>>)

pe_print_pair_csv(l, pair) ==
  LET c == l.stats[pair]
  IN [refr |-> pair[1], pred |-> pair[2],
      cds |-> CsvStructure(c.cds_struc_stats),
      exon |-> CsvStructure(c.exon_struc_stats),
      utr |-> CsvStructure(c.utr_struc_stats),
      nuc |-> [kind |-> "row", identity |-> overall_identity(c)]]

--------------------------------------------------------------------------
\* Reports: the per-locus reports

\* PeOptions as far as the per-locus reports read it.  The text report of
\* AgnCompareTextReportVisitor is the format "visitor"; its max_comparisons
\* is the complimit.
ReportOptions == [outfmt : {"text", "csv", "html", "visitor"}, complimit : 0..MaxLimit]

\* What a per-locus report wrote: whether any line names the locus, the note
\* in place of comparisons ("none" when there is no note) with the count and
\* the limit it states, whether the best pairs were selected, the blocks of
\* the reported pairs, the unmatched cliques listed, and whether an assertion
\* ended the process.
Output(listed, note, count, limit, selected, pairs, unmatched, refr, pred, aborted) ==
  [listed |-> listed, note |-> note, count |-> count, limit |-> limit,
   selected |-> selected, pairs |-> pairs, unmatched |-> unmatched,
   unique_refr |-> refr, unique_pred |-> pred, aborted |-> aborted]

NoOutput == Output(FALSE, "nothing", 0, 0, FALSE, <<>>, FALSE, {}, {}, FALSE)

\* The clique pairs reach the limit.
ExceedsLimitOrEqual(pairs) ==
  options.complimit # 0 /\ gt_array_size(pairs) >= options.complimit

\* options->complimit != 0 && gt_array_size(pairs) > options->complimit
ExceedsLimit(pairs) ==
  options.complimit # 0 /\ gt_array_size(pairs) > options.complimit

\* The comparisons and the unmatched cliques of a locus whose best pairs are
\* reported, by the visitor or by ParsEval; the assertion pairs_to_report > 0
\* ends the process in a build that checks assertions.
ReportBestPairs(visitor, abort) ==
  LET reported_pairs == agn_pairwise_compare_locus_find_best_pairs(rlocus)
      pairs_to_report == gt_array_size(reported_pairs)
  IN IF pairs_to_report = 0 /\ abort
     THEN Output(TRUE, "none", 0, 0, TRUE, <<>>, FALSE, {}, {}, TRUE)
     ELSE Output(TRUE, "none", 0, 0, TRUE,
                 [k \in 1..pairs_to_report |->
                    IF visitor THEN locus_report_print_pair(rlocus, reported_pairs.elems[k])
                    ELSE pe_print_pair(rlocus, reported_pairs.elems[k])],
                 TRUE,
                 agn_pairwise_compare_locus_get_unique_refr_cliques(rlocus),
                 agn_pairwise_compare_locus_get_unique_pred_cliques(rlocus),
                 FALSE)

\* A report is printed once for the locus.
ReportReady(fmt) ==
  /\ mode = "report"
  /\ rlocus # NoReportLocus
  /\ options.outfmt = fmt
  /\ outstream = NoOutput

\* pe_gene_locus_print_results, text format (lines 43-341)
pe_gene_locus_print_results ==
  /\ ReportReady("text")
  /\ LET locuspairs == agn_pairwise_compare_locus_get_clique_pairs(rlocus)
     IN IF locuspairs.null
        THEN outstream' = Output(TRUE, "no_comparisons", 0, 0, FALSE, <<>>, FALSE, {}, {}, FALSE)
        ELSE IF ExceedsLimit(locuspairs)
        THEN outstream' = Output(TRUE, "exceeds", gt_array_size(locuspairs), options.complimit,
                                 FALSE, <<>>, FALSE, {}, {}, FALSE)
        ELSE \E abort \in BOOLEAN : outstream' = ReportBestPairs(FALSE, abort)
  /\ UNCHANGED <<cvars, options, rlocus, summary_data, aggregated, summary_out>>

\* pe_gene_locus_print_results_csv (lines 343-440): one row per reported pair
\* that needs comparison, none when the clique pairs exceed the limit.
pe_gene_locus_print_results_csv ==
  /\ ReportReady("csv")
  /\ LET reported_pairs == agn_pairwise_compare_locus_find_best_pairs(rlocus)
         clique_pairs == agn_pairwise_compare_locus_get_clique_pairs(rlocus)
         rows == SelectSeq(reported_pairs.elems,
                   LAMBDA pair : ~ExceedsLimit(clique_pairs) /\ agn_clique_pair_needs_comparison(pair))
     IN outstream' = Output(rows # <<>>, "none", 0, 0, TRUE,
                            [k \in 1..Len(rows) |-> pe_print_pair_csv(rlocus, rows[k])],
                            FALSE, {}, {}, FALSE)
  /\ UNCHANGED <<cvars, options, rlocus, summary_data, aggregated, summary_out>>

\* pe_gene_locus_print_results_html (lines 442-893): the page of the locus;
\* nothing is written in place of the comparisons when the clique pairs are
\* absent (lines 606-609).
pe_gene_locus_print_results_html ==
  /\ ReportReady("html")
  /\ LET clique_pairs == agn_pairwise_compare_locus_get_clique_pairs(rlocus)
     IN IF clique_pairs.null
        THEN outstream' = Output(TRUE, "none", 0, 0, FALSE, <<>>, FALSE, {}, {}, FALSE)
        ELSE IF ExceedsLimit(clique_pairs)
        THEN outstream' = Output(TRUE, "exceeds", gt_array_size(clique_pairs), options.complimit,
                                 FALSE, <<>>, FALSE, {}, {}, FALSE)
        ELSE \E abort \in BOOLEAN : outstream' = ReportBestPairs(FALSE, abort)
  /\ UNCHANGED <<cvars, options, rlocus, summary_data, aggregated, summary_out>>

\* agn_locus_pairs_to_report after agn_locus_comparative_analysis with
\* max_comparisons: no pairs for a locus over the limit.
agn_locus_pairs_to_report(l) ==
  LET clique_pairs == agn_pairwise_compare_locus_get_clique_pairs(l)
  IN IF clique_pairs.null \/ ExceedsLimit(clique_pairs) THEN NULL
     ELSE agn_pairwise_compare_locus_find_best_pairs(l)

\* ctrv_visit_feature_node and print_locus_report: the function returns after
\* the note when there is no pair to report.
ctrv_visit_feature_node ==
  /\ ReportReady("visitor")
  /\ LET pairs2report == agn_locus_pairs_to_report(rlocus)
     IN IF pairs2report.null \/ gt_array_size(pairs2report) = 0
        THEN outstream' = Output(TRUE, "no_comparisons", 0, 0, ~pairs2report.null, <<>>,
                                 FALSE, {}, {}, FALSE)
        ELSE outstream' = ReportBestPairs(TRUE, FALSE)
  /\ UNCHANGED <<cvars, options, rlocus, summary_data, aggregated, summary_out>>

--------------------------------------------------------------------------
\* Reports: the summary of the run

\* The calls of pe_print_summary a run is followed for.
MaxCalls == 2

ClassCounters ==
  <<"num_perfect", "num_mislabeled", "num_cds_match", "num_exon_match",
    "num_utr_match", "non_match">>

\* A statistic that was not resolved yet.
Unresolved == NotANumber("unresolved")

UnresolvedStructure == [sn |-> Unresolved, sp |-> Unresolved, f1 |-> Unresolved, ed |-> Unresolved]

\* AgnSummaryData after agn_summary_data_init: the counts, the sums of the
\* comparison statistics, and the statistics resolved from the sums.
EmptySummaryData ==
  [counts |-> [num_loci |-> 0, unique_refr |-> 0, unique_pred |-> 0,
               refr_genes |-> 0, pred_genes |-> 0,
               refr_transcripts |-> 0, pred_transcripts |-> 0,
               num_comparisons |-> 0, num_perfect |-> 0, num_mislabeled |-> 0,
               num_cds_match |-> 0, num_exon_match |-> 0, num_utr_match |-> 0,
               non_match |-> 0],
   stats |-> [cds_struc_stats |-> [correct |-> 0, missing |-> 0, wrong |-> 0],
              exon_struc_stats |-> [correct |-> 0, missing |-> 0, wrong |-> 0],
              utr_struc_stats |-> [correct |-> 0, missing |-> 0, wrong |-> 0],
              overall_matches |-> 0, overall_length |-> 0],
   resolved |-> [cds_struc_stats |-> UnresolvedStructure,
                 exon_struc_stats |-> UnresolvedStructure,
                 utr_struc_stats |-> UnresolvedStructure,
                 overall_identity |-> Unresolved]]

\* The statistics of the pairs of the loci that are aggregated.
SummaryStats ==
  { c \in PairStats :
      /\ c.cds_struc_stats.correct = 1 /\ c.cds_struc_stats.wrong = 0
      /\ c.exon_struc_stats.correct = 1
      /\ c.exon_struc_stats.missing = c.exon_struc_stats.wrong
      /\ c.utr_struc_stats.correct + c.utr_struc_stats.missing + c.utr_struc_stats.wrong <= 1
      /\ c.overall_matches >= 1
      /\ c.tolerance = 0 }

\* The loci that are aggregated: at most one clique on each side, one side at
\* least, the clique pairs present.
SummaryLoci ==
  { l \in ReportLoci(SummaryStats, 1) : l.nrefr + l.npred > 0 /\ ~l.absent }

\* The sum of two AgnCompStatsBinary.
AddStructure(a, b) ==
  [correct |-> a.correct + b.correct, missing |-> a.missing + b.missing,
   wrong |-> a.wrong + b.wrong]

\* The counts of a pair are added to the sums and the total of the comparisons
\* is incremented, but no class is counted.
AggregatePairUnclassified(d, c) ==
  [d EXCEPT !.counts.num_comparisons = @ + 1,
            !.stats.cds_struc_stats = AddStructure(@, c.cds_struc_stats),
            !.stats.exon_struc_stats = AddStructure(@, c.exon_struc_stats),
            !.stats.utr_struc_stats = AddStructure(@, c.utr_struc_stats),
            !.stats.overall_matches = @ + c.overall_matches,
            !.stats.overall_length = @ + c.overall_length]

\* One accepted pair is aggregated: the counter of its one class and the total
\* of the comparisons are incremented, its counts are added to the sums.
AggregatePair(d, c) ==
  LET counter == ClassCounters[agn_clique_pair_classify(c) + 1]
  IN [d EXCEPT !.counts.num_comparisons = @ + 1,
               !.counts[counter] = @ + 1,
               !.stats.cds_struc_stats = AddStructure(@, c.cds_struc_stats),
               !.stats.exon_struc_stats = AddStructure(@, c.exon_struc_stats),
               !.stats.utr_struc_stats = AddStructure(@, c.utr_struc_stats),
               !.stats.overall_matches = @ + c.overall_matches,
               !.stats.overall_length = @ + c.overall_length]

RECURSIVE AggregatePairs(_, _)
AggregatePairs(d, cs) ==
  IF cs = <<>> THEN d
  ELSE AggregatePair(AggregatePairs(d, SubSeq(cs, 1, Len(cs) - 1)), cs[Len(cs)])

\* The statistics of the pairs accepted at a locus, in order.
AcceptedStats(l) ==
  LET pairs == agn_pairwise_compare_locus_find_best_pairs(l).elems
  IN [k \in 1..Len(pairs) |-> l.stats[pairs[k]]]

\* A locus with cliques on one side only is counted as unique, but not as a
\* locus.
AggregateLocusUniqueOnly(d, l) ==
  LET shared == IF l.nrefr > 0 /\ l.npred > 0 THEN 1 ELSE 0
      counted ==
        [d EXCEPT !.counts.num_loci = @ + shared,
                  !.counts.refr_genes = @ + (IF l.nrefr > 0 THEN 1 ELSE 0),
                  !.counts.pred_genes = @ + (IF l.npred > 0 THEN 1 ELSE 0),
                  !.counts.refr_transcripts = @ + l.nrefr,
                  !.counts.pred_transcripts = @ + l.npred,
                  !.counts.unique_refr = @ + (IF l.npred = 0 THEN 1 ELSE 0),
                  !.counts.unique_pred = @ + (IF l.nrefr = 0 THEN 1 ELSE 0)]
  IN AggregatePairs(counted, AcceptedStats(l))

\* One locus is aggregated: the locus, its genes and transcripts are counted
\* (one gene on a side that has cliques, one transcript for each clique), a
\* locus without prediction is unique to the reference and the reverse, and
\* every accepted pair is aggregated.
AggregateLocus(d, l) ==
  LET counted ==
        [d EXCEPT !.counts.num_loci = @ + 1,
                  !.counts.refr_genes = @ + (IF l.nrefr > 0 THEN 1 ELSE 0),
                  !.counts.pred_genes = @ + (IF l.npred > 0 THEN 1 ELSE 0),
                  !.counts.refr_transcripts = @ + l.nrefr,
                  !.counts.pred_transcripts = @ + l.npred,
                  !.counts.unique_refr = @ + (IF l.npred = 0 THEN 1 ELSE 0),
                  !.counts.unique_pred = @ + (IF l.nrefr = 0 THEN 1 ELSE 0)]
  IN AggregatePairs(counted, AcceptedStats(l))

\* The next locus of the run is aggregated into the summary data.
Aggregate ==
  /\ mode = "summary"
  /\ summary_out.calls = 0
  /\ summary_data.counts.num_loci < MaxAggregated
  /\ \E l \in SummaryLoci :
       /\ summary_data' = AggregateLocus(summary_data, l)
       /\ aggregated' = aggregated \o AcceptedStats(l)
  /\ UNCHANGED <<cvars, options, rlocus, outstream, summary_out>>

\* pe_print_summary, lines 998-1007: the statistics are resolved from the
\* sums in summary_data; the identity is divided in place.
ResolveSummary(d) ==
  [d EXCEPT !.resolved =
     [cds_struc_stats |-> agn_resolve_structure_level_stats(d.stats.cds_struc_stats),
      exon_struc_stats |-> agn_resolve_structure_level_stats(d.stats.exon_struc_stats),
      utr_struc_stats |-> agn_resolve_structure_level_stats(d.stats.utr_struc_stats),
      overall_identity |-> CDiv(d.stats.overall_matches, d.stats.overall_length)]]

\* A number printed as it is.
Number(n) == Fraction(n, 1)

\* ((float)n / (float)d) * 100 printed with %.1f%%
Percent(n, d) == CDiv(n, d)

\* A percentage that is printed only when its denominator is positive, if it
\* is guarded.
PercentIfAny(guarded, n, d) == IF guarded /\ d = 0 THEN Text("") ELSE Percent(n, d)

\* The lines of a structure comparison of the summary: the percentages
\* (guarded for the UTRs only) and the resolved statistics.
SummaryStructure(st, r, guarded) ==
  [refr |-> Number(st.correct + st.missing),
   refr_match |-> PercentIfAny(guarded, st.correct, st.correct + st.missing),
   refr_nomatch |-> PercentIfAny(guarded, st.missing, st.correct + st.missing),
   pred |-> Number(st.correct + st.wrong),
   pred_match |-> PercentIfAny(guarded, st.correct, st.correct + st.wrong),
   pred_nomatch |-> PercentIfAny(guarded, st.wrong, st.correct + st.wrong),
   sn |-> r.sn, sp |-> r.sp, f1 |-> r.f1, ed |-> r.ed]

\* What pe_print_summary (lines 1050-1324) and pe_print_summary_html print of
\* the resolved summary data d, by section.
SummaryValues(d) ==
  LET c == d.counts
  IN [loci |->
        [num_loci |-> Number(c.num_loci),
         shared |-> Number(c.num_loci - c.unique_refr - c.unique_pred),
         unique_refr |-> Number(c.unique_refr),
         unique_pred |-> Number(c.unique_pred)],
      annotations |->
        [refr_genes_per_locus |-> CDiv(c.refr_genes, c.num_loci),
         refr_transcripts_per_locus |-> CDiv(c.refr_transcripts, c.num_loci),
         refr_transcripts_per_gene |-> CDiv(c.refr_transcripts, c.refr_genes),
         pred_genes_per_locus |-> CDiv(c.pred_genes, c.num_loci),
         pred_transcripts_per_locus |-> CDiv(c.pred_transcripts, c.num_loci),
         pred_transcripts_per_gene |-> CDiv(c.pred_transcripts, c.pred_genes)],
      comparisons |->
        [num_comparisons |-> Number(c.num_comparisons),
         num_perfect |-> Percent(c.num_perfect, c.num_comparisons),
         num_mislabeled |-> Percent(c.num_mislabeled, c.num_comparisons),
         num_cds_match |-> Percent(c.num_cds_match, c.num_comparisons),
         num_exon_match |-> Percent(c.num_exon_match, c.num_comparisons),
         num_utr_match |-> Percent(c.num_utr_match, c.num_comparisons),
         non_match |-> Percent(c.non_match, c.num_comparisons)],
      cds |-> SummaryStructure(d.stats.cds_struc_stats, d.resolved.cds_struc_stats, FALSE),
      exon |-> SummaryStructure(d.stats.exon_struc_stats, d.resolved.exon_struc_stats, FALSE),
      utr |-> SummaryStructure(d.stats.utr_struc_stats, d.resolved.utr_struc_stats, TRUE),
      nucleotide |-> [overall_identity |-> d.resolved.overall_identity]]

\* pe_print_summary_html, lines 1388-1397: the header of the table of the
\* sequences compared.
SeqlistHeader == <<"Sequence", "Refr genes", "Pred genes", "Loci">>

\* pe_print_summary_html, lines 1401-1414: the row of a sequence with the
\* counts c, its cells in the order of the arguments of the fprintf; the
\* sequence id is a link unless only the summary is made or the sequence has
\* no locus.
SeqlistRow(c, summary_only) ==
  [linked |-> ~(summary_only \/ c.num_loci = 0),
   cells |-> <<Text("seqid"), Number(c.num_loci), Number(c.refr_genes), Number(c.pred_genes)>>]

\* What pe_print_summary wrote: the calls made, the values of the last call
\* that printed (none for the CSV format, which has no summary) and the rows
\* of the table of sequences of the HTML summary.
NoSummary == [calls |-> 0, values |-> <<>>, seqlist |-> <<>>]

\* pe_print_summary (lines 994-1327) with pe_print_summary_html: the
\* statistics are resolved in summary_data, and the summary is printed unless
\* the format is CSV.
pe_print_summary ==
  /\ mode = "summary"
  /\ summary_out.calls < MaxCalls
  /\ \E summary_only \in BOOLEAN :
       LET resolved == ResolveSummary(summary_data)
       IN /\ summary_data' = resolved
          /\ summary_out' =
               [calls |-> summary_out.calls + 1,
                values |-> IF options.outfmt = "csv" THEN <<>>
                           ELSE <<SummaryValues(resolved)>>,
                seqlist |-> IF options.outfmt = "html"
                            THEN <<SeqlistRow(resolved.counts, summary_only)>>
                            ELSE <<>>]
  /\ UNCHANGED <<cvars, options, rlocus, outstream, aggregated>>

--------------------------------------------------------------------------
\* Specifications

\* The state after the input is loaded, for the modes of M and an environment
\* that fails at most E index calls.
InitModes(M, E) ==
  /\ mode \in M
  /\ \E n \in 0..MaxFeatOf(mode) :
       /\ feat \in [1..n -> FeatureRecs(mode)]
       /\ ListByList(feat)
  /\ nthreads \in (IF mode \in {"index", "index_pairwise"}
                   THEN 1..Min(MaxProcs, Max(1, Cardinality(RunSeqids)))
                   ELSE {1})
  /\ pc = [s \in SeqIds |-> "idle"]
  /\ pos = [s \in SeqIds |-> 1]
  /\ visited = [s \in SeqIds |-> {}]
  /\ locus = [s \in SeqIds |-> NoLocus]
  /\ loci = [s \in SeqIds |-> {}]
  /\ ret = [s \in SeqIds |-> "none"]
  /\ qerr = [s \in SeqIds |-> "none"]
  /\ totalloci = 0
  /\ locus_trees = <<>>
  /\ has_error = FALSE
  /\ errs_left = E
  /\ returned = FALSE
  /\ fault = "none"
  /\ options = [outfmt |-> "text", complimit |-> 0]
  /\ rlocus = NoReportLocus
  /\ outstream = NoOutput
  /\ summary_data = EmptySummaryData
  /\ aggregated = <<>>
  /\ summary_out = NoSummary

Init == InitModes(Modes, MaxErrors)

\* The run of an environment whose index calls all succeed.
InitQuiet == InitModes(Modes, 0)

\* The dual-source clusterers.
InitPairwise == InitModes(Pairwise, MaxErrors)

NextIndex ==
  \E s \in SeqIds :
    \/ IndexParseStart(s)
    \/ IndexParseSeed(s)
    \/ IndexParseExpand(s)
    \/ MemoryCritical(s)
    \/ MemoryReturn

NextPairwise ==
  \E s \in SeqIds :
    \/ PairwiseParseStart(s)
    \/ PairwiseSeedRefr(s)
    \/ PairwiseExpandRefr(s)
    \/ PairwisePredList(s)
    \/ PairwiseSeedPred(s)
    \/ PairwiseExpandPred(s)
    \/ MemoryCritical(s)
    \/ MemoryReturn

NextStream ==
  \E s \in SeqIds :
    \/ StreamParseSeed(s)
    \/ StreamParseExpand(s)
    \/ StreamReturn

NextStreamPairwise ==
  \E s \in SeqIds :
    \/ StreamPairwiseSeedRefr(s)
    \/ StreamPairwiseExpandRefr(s)
    \/ StreamPairwiseSeedPred(s)
    \/ StreamPairwiseExpandPred(s)
    \/ StreamReturn

Next == NextIndex \/ NextPairwise \/ NextStream \/ NextStreamPairwise

Spec == Init /\ [][Next]_vars

SpecQuiet == InitQuiet /\ [][Next]_vars

SpecPairwise == InitPairwise /\ [][NextPairwise \/ NextStreamPairwise]_vars

\* The clusterers whose loops run on counts of added features, with the
\* threads and the sequential loops scheduled until they are over.
Terminating == {"index", "stream", "stream_pairwise"}

InitTerminating == InitModes(Terminating, MaxErrors)

NextTerminating == NextIndex \/ NextStream \/ NextStreamPairwise

SpecTerminating ==
  InitTerminating /\ [][NextTerminating]_vars /\ WF_vars(NextTerminating)

\* The clustering is over when the reports are written.
ClusteringDone ==
  /\ feat = <<>>
  /\ nthreads = 1
  /\ pc = [s \in SeqIds |-> "idle"]
  /\ pos = [s \in SeqIds |-> 1]
  /\ visited = [s \in SeqIds |-> {}]
  /\ locus = [s \in SeqIds |-> NoLocus]
  /\ loci = [s \in SeqIds |-> {}]
  /\ ret = [s \in SeqIds |-> "none"]
  /\ qerr = [s \in SeqIds |-> "none"]
  /\ totalloci = 0
  /\ locus_trees = <<>>
  /\ has_error = FALSE
  /\ errs_left = 0
  /\ returned = FALSE
  /\ fault = "none"

\* The loci the per-locus reports are followed for: loci of several cliques
\* whose pairs differ in identity, and simple loci with any statistics.
ReportInputs ==
  { l \in ReportLoci(PairStatsByIdentity, MaxCliques) : l.nrefr + l.npred > 0 }
    \cup { l \in ReportLoci(PairStats, 1) : l.nrefr = 1 /\ l.npred = 1 }

\* A locus is handed to the per-locus report of the chosen format.
InitReport ==
  /\ mode = "report"
  /\ ClusteringDone
  /\ options \in ReportOptions
  /\ rlocus \in ReportInputs
  /\ outstream = NoOutput
  /\ summary_data = EmptySummaryData
  /\ aggregated = <<>>
  /\ summary_out = NoSummary

NextReport ==
  \/ pe_gene_locus_print_results
  \/ pe_gene_locus_print_results_csv
  \/ pe_gene_locus_print_results_html
  \/ ctrv_visit_feature_node

SpecReport == InitReport /\ [][NextReport]_vars

\* The loci of a run are aggregated and the summary is printed.
InitSummary ==
  /\ mode = "summary"
  /\ ClusteringDone
  /\ options \in { o \in ReportOptions : o.outfmt # "visitor" /\ o.complimit = 0 }
  /\ rlocus = NoReportLocus
  /\ outstream = NoOutput
  /\ summary_data = EmptySummaryData
  /\ aggregated = <<>>
  /\ summary_out = NoSummary

NextSummary ==
  \/ Aggregate
  \/ pe_print_summary

SpecSummary == InitSummary /\ [][NextSummary]_vars

--------------------------------------------------------------------------
\* Properties

\* The features of seqid s that the clusterer is to place in loci.
ClusteredIds(s) == { a \in Ids : feat[a].seqid = s /\ feat[a].type # "other" }

\* Two features overlap when some coordinate lies in both ranges.
Overlaps(a, b) ==
  \E x \in feat[a].start..feat[a].end : x \in feat[b].start..feat[b].end

\* The features of U connected to a feature of S by a chain of features of U
\* in which each overlaps the next.
RECURSIVE Component(_, _)
Component(S, U) ==
  LET ext == { b \in U : \E a \in S : Overlaps(a, b) }
  IN IF ext \subseteq S THEN S ELSE Component(S \cup ext, U)

Components(U) == { Component({g}, U) : g \in U }

\* The per-sequence parse of s has returned a locus collection.
Returned(s) == ret[s] = "loci"

LocusRangesOverlap(l1, l2) == \E x \in l1.start..l1.end : x \in l2.start..l2.end

\* C1: in the single-source clusterers (agn_locus_index_parse,
\* locus_stream_parse), when no index query failed for a sequence, its loci
\* are exactly the connected components of the range-overlap relation: two
\* features share a locus iff a chain of pairwise-overlapping ranges connects
\* them.
C1_LociAreOverlapComponents ==
  \A s \in SeqIds :
    (mode \in {"index", "stream"} /\ Returned(s) /\ qerr[s] = "none") =>
      /\ { MemberIds(l) : l \in loci[s] } = Components(ClusteredIds(s))
      /\ Cardinality(loci[s]) = Cardinality(Components(ClusteredIds(s)))

\* Three genes of which the first two overlap without being equal and the
\* third overlaps neither have been clustered into two loci.
C1_Witness ==
  \E s \in SeqIds :
    /\ mode = "index" /\ Returned(s) /\ qerr[s] = "none"
    /\ Cardinality(ClusteredIds(s)) = 3
    /\ Cardinality(loci[s]) = 2
    /\ \E l \in loci[s] : \E a, b \in MemberIds(l) :
         feat[a].end < feat[b].end

\* C2: after agn_locus_index_parse has clustered a sequence, every gene of the
\* sequence is a member of exactly one locus and was added to it exactly once,
\* the gene that seeded the locus included.
C2_EveryGeneAddedOnce ==
  \A s \in SeqIds :
    (mode = "index" /\ Returned(s)) =>
      \A g \in ClusteredIds(s) :
        /\ Cardinality({ l \in loci[s] : g \in MemberIds(l) }) = 1
        /\ \A l \in loci[s] : CopiesIn(<<g, "default">>, l.members) <= 1

\* C3: when no index query failed for a sequence, any two distinct loci
\* produced for it have non-overlapping ranges, in every clusterer and between
\* the loci of pass 1 and pass 2.
C3_LociDisjoint ==
  \A s \in SeqIds :
    (Returned(s) /\ qerr[s] = "none") =>
      \A l1, l2 \in loci[s] : l1 # l2 => ~LocusRangesOverlap(l1, l2)

\* The orders in which an index can return the features of list.
Orders(list) ==
  { p \in [1..Len(list) -> { list[j] : j \in 1..Len(list) }] :
      \A a, b \in 1..Len(list) : a # b => p[a] # p[b] }

\* A locus as compared between runs: its range and its labelled members.
LocusView(l) == [start |-> l.start, end |-> l.end, members |-> BagToSet(l.members)]

LociView(L) == { LocusView(l) : l \in L }

\* C4: whatever the order in which the index returns the features of a
\* sequence (of each source's list independently in dual-source mode), the
\* clusterer produces the same loci by range, members and source labels, as
\* long as no index query fails.
C4_OrderIndependent ==
  \A s \in SeqIds :
    (Returned(s) /\ qerr[s] = "none") =>
      /\ mode = "index" =>
           \A p \in Orders(FeaturesForSeqid("default", s)) :
             LociView(agn_locus_index_parse(s, p)) = LociView(loci[s])
      /\ mode = "stream_pairwise" =>
           \A p \in Orders(FeaturesForSeqid("refr", s)), q \in Orders(FeaturesForSeqid("pred", s)) :
             LociView(locus_stream_parse_pairwise(s, p, q)) = LociView(loci[s])

\* A dual-source sequence has been clustered whose locus took three
\* transcripts, two of them from one source, in more than one iteration.
C4_Witness ==
  \E s \in SeqIds :
    /\ mode = "stream_pairwise" /\ Returned(s)
    /\ \E l \in loci[s] :
         /\ Cardinality(MemberIds(l)) = 3
         /\ LabelIds(l, "refr") # {} /\ LabelIds(l, "pred") # {}
         /\ \E a \in MemberIds(l) : ~Overlaps(a, l.seed)

RefrIds(s) == { a \in Ids : feat[a].seqid = s /\ feat[a].source = "refr" }
PredIds(s) == { a \in Ids : feat[a].seqid = s /\ feat[a].source = "pred" }

\* Pass 1 of the dual-source parse of s has ended.
Pass1Over(s) == pc[s] \in {"predlist", "seed2", "expand2"} \/ Returned(s)

\* The loci of s, the one under construction included.
AllLoci(s) == loci[s] \cup (IF locus[s] = NoLocus THEN {} ELSE {locus[s]})

\* C5: in the dual-source clusterers, when pass 1 has ended every reference
\* feature of the sequence is claimed; a locus seeded in pass 2 holds
\* prediction features only; a locus that holds a reference feature was seeded
\* by a reference feature in pass 1.
C5_PassOrdering ==
  \A s \in SeqIds :
    mode \in Pairwise =>
      /\ Pass1Over(s) => RefrIds(s) \subseteq visited[s]
      /\ \A l \in AllLoci(s) :
           /\ l.pass = 2 => (MemberIds(l) \subseteq PredIds(s) /\ LabelIds(l, "refr") = {})
           /\ (MemberIds(l) \cap RefrIds(s) # {} \/ LabelIds(l, "refr") # {}) =>
                (l.pass = 1 /\ l.seed \in RefrIds(s))

\* A sequence has been clustered into a pass 1 locus holding both sources and
\* a pass 2 locus.
C5_Witness ==
  \E s \in SeqIds :
    /\ mode = "index_pairwise" /\ Returned(s)
    /\ \E l1, l2 \in loci[s] :
         /\ l1.pass = 1 /\ LabelIds(l1, "pred") # {}
         /\ l2.pass = 2

\* The entry point has returned: every seqid of the run has been clustered.
RunOver == returned

StreamLoci == UNION { loci[s] : s \in SeqIds }

OtherSource(src) == IF src = "refr" THEN "pred" ELSE "refr"

\* C6: when locus_stream_parse_pairwise is over, every transcript of either
\* source, on whatever seqid of either source, is recorded once in exactly one
\* locus, under the label of its own source and never under the other label.
C6_StreamPairwiseComplete ==
  (mode = "stream_pairwise" /\ RunOver) =>
    \A a \in Ids :
      /\ Cardinality({ l \in StreamLoci : a \in MemberIds(l) }) = 1
      /\ \A l \in StreamLoci :
           /\ CopiesIn(<<a, feat[a].source>>, l.members) <= 1
           /\ CopiesIn(<<a, OtherSource(feat[a].source)>>, l.members) = 0

\* The run is over for two seqids, one present in one source only, the other
\* clustered into a locus with transcripts of both sources.
C6_Witness ==
  /\ mode = "stream_pairwise" /\ RunOver
  /\ \E s \in RunSeqids : s \notin SeqidsOf("refr") /\ loci[s] # {}
  /\ \E s \in RunSeqids : \E l \in loci[s] :
       LabelIds(l, "refr") # {} /\ LabelIds(l, "pred") # {}

TreeLoci == UNION { locus_trees[s] : s \in DOMAIN locus_trees }

\* C7: when agn_locus_index_parse_pairwise_memory returns, every gene of the
\* reference input and of the prediction input belongs to exactly one locus of
\* the index, genes on a seqid of only one input included.
C7_PairwiseMemoryComplete ==
  (mode = "index_pairwise" /\ RunOver) =>
    \A a \in Ids : Cardinality({ l \in TreeLoci : a \in MemberIds(l) }) = 1

\* C8: in agn_locus_index_parse_pairwise a failed range query does not make
\* the parse give up: the loci of the sequence are not discarded and no NULL
\* is returned in place of the locus collection.
C8_RangeErrorKeepsLoci ==
  \A s \in SeqIds :
    (mode = "index_pairwise" /\ qerr[s] = "range") => ret[s] # "NULL"

\* C9: in agn_locus_index_parse_pairwise_memory a sequence whose own index
\* calls all succeed gets its locus collection, as in a run without errors,
\* whatever error is logged for another sequence.
C9_ErrorsIsolated ==
  \A s \in SeqIds :
    (mode = "index_pairwise" /\ qerr[s] = "none") => ret[s] # "NULL"

\* C10: in the parallel drivers an absent (NULL) locus collection is never
\* asked for its size, so a failed sequence never ends the process.
C10_NullNeverSized == fault # "null_size"

\* The state shared between the workers of the parallel drivers: the total
\* locus counter, the seqid-to-loci map and the logger's error state.
SharedState == <<totalloci, locus_trees, has_error>>

\* C11: during parallel clustering every change of state shared between the
\* workers is made by a step of the critical region; in particular no worker
\* changes the logger's error state while it clusters a sequence.
C11_SharedWritesInCritical ==
  [][(mode \in {"index", "index_pairwise"} /\ SharedState' # SharedState) =>
       \E s \in SeqIds : MemoryCritical(s)]_vars

\* The clique pairs of the locus that was reported, counted.
CliquePairCount == gt_array_size(agn_pairwise_compare_locus_get_clique_pairs(rlocus))

\* The locus that was reported has clique pairs and cliques on both sides.
TwoSided == ~rlocus.absent /\ rlocus.nrefr > 0 /\ rlocus.npred > 0

\* C12: the text and the HTML report of a locus give the exceeds note, with
\* the count of the clique pairs and the limit and without selecting or
\* reporting a pair, exactly when the limit is not 0 and the count is greater
\* than the limit; in the other case the best pairs of a locus with cliques on
\* both sides are selected and reported.
C12_ComparisonLimit ==
  (options.outfmt \in {"text", "html"} /\ outstream # NoOutput) =>
    LET over == options.complimit # 0 /\ CliquePairCount > options.complimit
        best == agn_pairwise_compare_locus_find_best_pairs(rlocus).elems
    IN /\ (outstream.note = "exceeds") <=> over
       /\ over => /\ outstream.count = CliquePairCount
                  /\ outstream.limit = options.complimit
                  /\ ~outstream.selected
                  /\ outstream.pairs = <<>>
       /\ (TwoSided /\ ~over) =>
            /\ outstream.selected
            /\ Len(outstream.pairs) = Len(best)
            /\ Len(best) >= 1
            /\ \A k \in 1..Len(best) :
                 /\ outstream.pairs[k].refr = best[k][1]
                 /\ outstream.pairs[k].pred = best[k][2]

\* 2 x 2 cliques are over a limit below 4, and are reported with limit 4.
C12_Witness ==
  /\ options.outfmt = "html"
  /\ rlocus.nrefr = 2 /\ rlocus.npred = 2
  /\ \/ outstream.note = "exceeds" /\ outstream.count = 4 /\ outstream.limit = 3
     \/ options.complimit = 4 /\ Len(outstream.pairs) = 2

\* The clique pairs of the locus that was reported are over the limit.
OverLimit ==
  ~rlocus.absent /\ options.complimit # 0 /\ CliquePairCount > options.complimit

\* C13: whatever the format, the report of a locus that is not compared lists
\* the locus and gives a note that tells why: the clique pairs are over the
\* limit, or there are no clique pairs.
C13_SkippedLocusNoted ==
  (outstream # NoOutput /\ (rlocus.absent \/ OverLimit)) =>
    /\ outstream.listed
    /\ outstream.note = (IF OverLimit THEN "exceeds" ELSE "no_comparisons")

\* The cliques of the reported locus that no reported pair holds.
UnreportedRefr ==
  { r \in 1..rlocus.nrefr : \A k \in 1..Len(outstream.pairs) : outstream.pairs[k].refr # r }

UnreportedPred ==
  { p \in 1..rlocus.npred : \A k \in 1..Len(outstream.pairs) : outstream.pairs[k].pred # p }

\* C14: the text reports list every clique of the locus that is in no
\* reported pair as unmatched, also when one side of the locus is empty and
\* no pair is reported.
C14_UnmatchedCliquesListed ==
  (options.outfmt \in {"text", "visitor"} /\ outstream # NoOutput /\ ~outstream.aborted) =>
    /\ UnreportedRefr \subseteq outstream.unique_refr
    /\ UnreportedPred \subseteq outstream.unique_pred
    /\ (UnreportedRefr \cup UnreportedPred # {}) => outstream.unmatched

\* C15: in the pairs selected for a locus no reference clique and no
\* prediction clique is in two pairs, whatever the cliques and the scores.
C15_CliquesClaimedOnce ==
  (outstream # NoOutput /\ outstream.selected) =>
    LET best == agn_pairwise_compare_locus_find_best_pairs(rlocus).elems
    IN /\ \A i, j \in 1..Len(best) :
            i # j => best[i][1] # best[j][1] /\ best[i][2] # best[j][2]
       /\ \A i, j \in 1..Len(outstream.pairs) :
            i # j => /\ outstream.pairs[i].refr # outstream.pairs[j].refr
                     /\ outstream.pairs[i].pred # outstream.pairs[j].pred

\* Two pairs are selected from 2 x 2 cliques with different scores.
C15_Witness ==
  /\ outstream.selected
  /\ Len(outstream.pairs) = 2
  /\ \E p, q \in DOMAIN rlocus.stats :
       overall_identity(rlocus.stats[p]) # overall_identity(rlocus.stats[q])

\* The statistics of the k-th pair block of the report.
ReportedStats(k) == rlocus.stats[<<outstream.pairs[k].refr, outstream.pairs[k].pred>>]

\* The three structures match and the identity is at least 1 - tolerance.
PerfectWithinTolerance(c) ==
  /\ StrucPerfect(c.cds_struc_stats)
  /\ StrucPerfect(c.exon_struc_stats)
  /\ StrucPerfect(c.utr_struc_stats)
  /\ c.overall_matches * TolDen >= (TolDen - c.tolerance) * c.overall_length

\* C16: a compared pair whose CDS, exon and UTR structures match and whose
\* identity is at least 1 - tolerance, the boundary included, is classified a
\* perfect match, and the text, HTML and visitor reports show it as a perfect
\* match and print no nucleotide-level statistics for it.
C16_PerfectMatchShown ==
  (options.outfmt # "csv" /\ outstream # NoOutput) =>
    \A k \in 1..Len(outstream.pairs) :
      PerfectWithinTolerance(ReportedStats(k)) =>
        /\ agn_clique_pair_classify(ReportedStats(k)) = PE_CLIQUE_PAIR_PERFECT_MATCH
        /\ outstream.pairs[k].nuc.kind = "perfect"

\* C19: for a reported pair without a UTR segment on either side each of the
\* two text reports states that no UTRs are annotated, and prints neither UTR
\* counts or ratios nor that the UTR structures match perfectly.
C19_NoUtrsStated ==
  (options.outfmt \in {"text", "visitor"} /\ outstream # NoOutput) =>
    \A k \in 1..Len(outstream.pairs) :
      ~agn_clique_pair_has_utrs(ReportedStats(k)) => outstream.pairs[k].utr = NoUtrs

\* The aggregated pairs of one class, counted.
AggregatedOfClass(code) ==
  Cardinality({ k \in 1..Len(aggregated) : agn_clique_pair_classify(aggregated[k]) = code })

\* C17: after any sequence of loci is aggregated every aggregated pair is
\* counted in the counter of its one class, so the six counters add up to
\* num_comparisons, the denominator of the percentages of the summary.
C17_CountersSumToComparisons ==
  mode = "summary" =>
    LET c == summary_data.counts
    IN /\ c.num_perfect + c.num_mislabeled + c.num_cds_match + c.num_exon_match
            + c.num_utr_match + c.non_match = c.num_comparisons
       /\ c.num_comparisons = Len(aggregated)
       /\ \A code \in 0..5 : c[ClassCounters[code + 1]] = AggregatedOfClass(code)

\* Two pairs of different classes were aggregated and the summary is printed.
C17_Witness ==
  /\ Len(aggregated) = 2
  /\ agn_clique_pair_classify(aggregated[1]) # agn_clique_pair_classify(aggregated[2])
  /\ summary_data.counts.num_comparisons = 2
  /\ summary_out.calls > 0

\* The numbers of a printed summary.
PrintedNumbers(v) == UNION { { v[part][f] : f \in DOMAIN v[part] } : part \in DOMAIN v }

\* C18: no number of the summary is the result of a division by zero: a
\* statistic whose denominator is zero is shown as undefined, or left out.
C18_NoDivisionByZero ==
  \A k \in 1..Len(summary_out.values) :
    \A x \in PrintedNumbers(summary_out.values[k]) : x.kind \notin {"nan", "inf"}

\* The sum of a count over the aggregated pairs.
Total(counts) ==
  LET S[k \in 0..Len(counts)] == IF k = 0 THEN 0 ELSE S[k - 1] + counts[k]
  IN S[Len(counts)]

\* The aggregated counts of a structure, pair by pair.
Aggregated(struc, count) == [k \in 1..Len(aggregated) |-> aggregated[k][struc][count]]

\* The statistics of a structure as functions of the summed counts.
FromSums(printed, correct, missing, wrong) ==
  /\ (correct + missing > 0) => printed.sn = Fraction(correct, correct + missing)
  /\ (correct + wrong > 0) => printed.sp = Fraction(correct, correct + wrong)
  /\ correct > 0 =>
       /\ printed.f1 = Fraction(2 * correct, 2 * correct + missing + wrong)
       /\ printed.ed = Fraction(missing + wrong, 2 * correct + missing + wrong)

C21_LocusTallies ==
  mode = "summary" =>
    LET c == summary_data.counts
    IN /\ c.unique_refr + c.unique_pred <= c.num_loci
       /\ c.num_loci - c.unique_refr - c.unique_pred = Len(aggregated)
       /\ \A k \in 1..Len(summary_out.values) :
            /\ summary_out.values[k].loci.shared = Fraction(Len(aggregated), 1)
            /\ summary_out.values[k].loci.shared.num >= 0

\* The summary of a run with a shared locus and a locus unique to the
\* reference is printed.
C21_Witness ==
  /\ summary_out.values # <<>>
  /\ summary_data.counts.num_loci = 2
  /\ summary_data.counts.unique_refr = 1
  /\ summary_data.counts.unique_pred = 0
  /\ summary_out.values[1].loci.shared = Fraction(1, 1)

\* Statistics that differ in identity (1/1 and 2/2 are the same identity) and
\* in the correct CDS and UTR segments.
CompareRecords ==
  { [cds_struc_stats |-> [correct |-> cds, missing |-> 0, wrong |-> 0],
     exon_struc_stats |-> [correct |-> 1, missing |-> 0, wrong |-> 0],
     utr_struc_stats |-> [correct |-> utr, missing |-> 0, wrong |-> 0],
     overall_matches |-> matches, overall_length |-> length, tolerance |-> 0] :
      cds \in 0..MaxCount, utr \in 0..MaxCount,
      matches \in 1..MaxLength, length \in 1..MaxLength }

CompareStats == { c \in CompareRecords : c.overall_matches <= c.overall_length }

--------------------------------------------------------------------------
\* Delivery of the stream's loci

\* gt_feature_in_stream_next behind locus_stream_next, lines 294-306: the
\* loci of one seqid as a sequence, either in the order of the passes that
\* added them to stream->loci (by_pass) or sorted by range.
RECURSIVE FeatureInStream(_, _)
FeatureInStream(L, by_pass) ==
  IF L = {}
  THEN <<>>
  ELSE LET Before(l, m) ==
             \/ by_pass /\ l.pass < m.pass
             \/ (by_pass => l.pass = m.pass) /\ l.start < m.start
             \/ (by_pass => l.pass = m.pass) /\ l.start = m.start /\ l.end <= m.end
           first == CHOOSE l \in L : \A m \in L : Before(l, m)
       IN <<first>> \o FeatureInStream(L \ {first}, by_pass)

\* A feature stream that hands the loci out pass by pass.
gt_feature_in_stream_by_pass(L) == FeatureInStream(L, TRUE)

\* gt_feature_in_stream_new(stream->loci), lines 123 and 171: the loci of a
\* seqid are handed out sorted by their ranges.
gt_feature_in_stream(L) == FeatureInStream(L, FALSE)

\* The loci of seqid s in the order locus_stream_next delivers them.
Delivered(s) == gt_feature_in_stream(loci[s])

MemberStarts(l) == { feat[f].start : f \in MemberIds(l) }
MemberEnds(l) == { feat[f].end : f \in MemberIds(l) }

RangeIsUnion(l) ==
  /\ l.start \in MemberStarts(l)
  /\ l.end \in MemberEnds(l)
  /\ \A x \in MemberStarts(l) : l.start <= x
  /\ \A x \in MemberEnds(l) : l.end >= x

\* C24: the range recorded for a locus, while it grows, when it is inserted
\* into the collection of its seqid and in the map of the index, is the union
\* of the ranges of its members (minimum start, maximum end), and no step of
\* the expansion makes the range of the locus under construction smaller.
C24_RangeIsUnionOfMembers ==
  [][/\ \A s \in SeqIds :
          /\ \A l \in loci'[s] : RangeIsUnion(l)
          /\ locus'[s] # NoLocus => RangeIsUnion(locus'[s])
          /\ (locus[s] # NoLocus /\ locus'[s] # NoLocus /\ locus'[s].seed = locus[s].seed) =>
                /\ locus'[s].start <= locus[s].start
                /\ locus'[s].end >= locus[s].end
          /\ \A l \in loci'[s] \ loci[s] :
               (locus[s] # NoLocus /\ l.seed = locus[s].seed) =>
                  /\ l.start <= locus[s].start
                  /\ l.end >= locus[s].end
     /\ \A s \in DOMAIN locus_trees' : \A l \in locus_trees'[s] : RangeIsUnion(l)]_vars

\* The index returned a locus whose range is wider than each of two members.
C24_Witness ==
  /\ mode = "index"
  /\ returned
  /\ \E l \in TreeLoci : \E f, g \in MemberIds(l) :
       /\ feat[f].start < feat[g].start
       /\ feat[f].end < feat[g].end
       /\ l.start = feat[f].start
       /\ l.end = feat[g].end

\* C25: the count agn_locus_index_pairwise_test_overlap returns is the number
\* of genes it assigned, so the iteration of the do-while of
\* agn_locus_index_parse_pairwise that seals the locus is one that assigned
\* no gene from either index.
C25_LoopStopsWhenNothingAdded ==
  [][\A s \in SeqIds :
       (/\ mode = "index_pairwise"
        /\ \/ pc[s] = "expand" /\ pc'[s] = "seed"
           \/ pc[s] = "expand2" /\ pc'[s] = "seed2") =>
          visited'[s] = visited[s]]_vars

\* The sizes of the locus collections of the seqids of S, summed.
RECURSIVE TreeSizes(_)
TreeSizes(S) ==
  IF S = {} THEN 0
  ELSE LET s == CHOOSE x \in S : TRUE
       IN Cardinality(locus_trees[s]) + TreeSizes(S \ {s})

\* C26: when agn_locus_index_parse_memory or
\* agn_locus_index_parse_pairwise_memory returns, whatever the number of
\* threads and the interleaving of their steps, the map of the index has one
\* entry for each seqid the run iterated over, the entry of a seqid is the
\* collection its parse built, and the total returned is the sum of the sizes
\* of the collections.
C26_NoLostUpdates ==
  (mode \in {"index", "index_pairwise"} /\ returned) =>
    /\ DOMAIN locus_trees = RunSeqids
    /\ \A s \in RunSeqids : locus_trees[s] = loci[s]
    /\ totalloci = TreeSizes(RunSeqids)

\* Two threads returned the loci of two seqids, three loci in all.
C26_Witness ==
  /\ mode \in {"index", "index_pairwise"}
  /\ returned
  /\ nthreads = 2
  /\ Cardinality(RunSeqids) = 2
  /\ \A s \in RunSeqids : locus_trees[s] # {}
  /\ totalloci = 3

\* The features of the inputs that lie on seqid s.
OnSeqid(s) == { f \in Ids : feat[f].seqid = s }

\* C27: in agn_locus_index_parse, locus_stream_parse and
\* locus_stream_parse_pairwise every iteration of an expansion loop that goes
\* on claims at least one feature of the sequence that was not claimed before,
\* so a locus takes at most as many iterations as the sequence has features,
\* plus one; and the run ends with every sequence sealed into loci, unless an
\* index call failed and stopped the program.
C27_ClusteringTerminates ==
  /\ [][\A s \in SeqIds :
          (/\ pc[s] \in {"expand", "expand2"}
           /\ pc'[s] = pc[s]
           /\ locus'[s] # locus[s]) =>
             /\ visited[s] \subseteq visited'[s]
             /\ visited'[s] # visited[s]
             /\ visited'[s] \subseteq OnSeqid(s)]_vars
  /\ <>(\/ fault # "none"
        \/ /\ returned
           /\ \A s \in RunSeqids : pc[s] = "done" /\ locus[s] = NoLocus)

\* The single-source index returned a locus with a member that the seed does
\* not overlap: its expansion took more than one iteration that added a gene.
C27_Witness ==
  /\ mode = "index"
  /\ returned
  /\ \E l \in TreeLoci : \E g \in MemberIds(l) :
       feat[g].start > feat[l.seed].end

\* C28: when pe_gene_locus_print_results or pe_gene_locus_print_results_html
\* reports a locus whose clique pairs are there and within the limit, whether
\* the locus has transcripts of both sources or of one only, their assertions
\* hold: the selection of the best pairs returns at least one pair, every
\* pair it returns needs comparison, and the report is not aborted.
C28_ReportAssertionsHold ==
  (/\ mode = "report"
   /\ options.outfmt \in {"text", "html"}
   /\ outstream # NoOutput
   /\ ~rlocus.absent
   /\ ~ExceedsLimit(agn_pairwise_compare_locus_get_clique_pairs(rlocus))) =>
     LET reported_pairs == agn_pairwise_compare_locus_find_best_pairs(rlocus)
     IN /\ gt_array_size(reported_pairs) > 0
        /\ \A k \in 1..gt_array_size(reported_pairs) :
             agn_clique_pair_needs_comparison(reported_pairs.elems[k])
        /\ ~outstream.aborted

\* The four label and value lines of a structure comparison that is not
\* perfect, each statistic after its own label.
LabelledLines(st) ==
  LET r == agn_resolve_structure_level_stats(st)
  IN <<Line(Text("Sensitivity:"), r.sn), Line(Text("Specificity:"), r.sp),
       Line(Text("F1 Score:"), r.f1), Line(Text("Annotation edit distance:"), r.ed)>>

\* C29: in the text report of the visitor every structure comparison that is
\* not perfect prints the sensitivity after 'Sensitivity:', the specificity
\* after 'Specificity:', the F1 score after 'F1 Score:' and the edit distance
\* after 'Annotation edit distance:', as pe_gene_locus_print_results does.
C29_VisitorLabelsOwnValues ==
  (mode = "report" /\ options.outfmt = "visitor" /\ outstream # NoOutput) =>
    \A k \in 1..Len(outstream.pairs) :
      LET p == outstream.pairs[k]
          c == rlocus.stats[<<p.refr, p.pred>>]
      IN /\ p.cds.kind = "detail" =>
              /\ p.cds.lines = LabelledLines(c.cds_struc_stats)
              /\ p.cds.lines = pe_print_structure(c.cds_struc_stats).lines
         /\ p.exon.kind = "detail" =>
              /\ p.exon.lines = LabelledLines(c.exon_struc_stats)
              /\ p.exon.lines = pe_print_structure(c.exon_struc_stats).lines
         /\ p.utr.kind = "detail" =>
              /\ p.utr.lines = LabelledLines(c.utr_struc_stats)
              /\ p.utr.lines = pe_print_structure(c.utr_struc_stats).lines

\* The count of a sequence that belongs under a column of the table of
\* sequences.
ColumnValue(column, c) ==
  IF column = "Sequence" THEN Text("seqid")
  ELSE IF column = "Refr genes" THEN Number(c.refr_genes)
  ELSE IF column = "Pred genes" THEN Number(c.pred_genes)
  ELSE Number(c.num_loci)

\* C30: every row of the table of sequences of the HTML summary, with or
\* without the link on the sequence id, has under each column of the header
\* the value the column names: the sequence id, the reference genes, the
\* prediction genes and the loci, in this order.
C30_SeqlistRowsFollowHeader ==
  (mode = "summary" /\ options.outfmt = "html") =>
    \A k \in 1..Len(summary_out.seqlist) :
      /\ Len(summary_out.seqlist[k].cells) = Len(SeqlistHeader)
      /\ \A j \in 1..Len(SeqlistHeader) :
           summary_out.seqlist[k].cells[j] = ColumnValue(SeqlistHeader[j], summary_data.counts)

====
